---- MODULE Spec2Model ----
(***************************************************************************)
(* A model of feed-me-recipes: the /ingest and admin /retry handlers, the  *)
(* attempt ledger (table import_attempts), the processRecipe job with the  *)
(* two extraction routes of recipe-extractor, the three parser entry       *)
(* points, the AnyList session, and the ntfy notifications.                *)
(*                                                                         *)
(* Text is modelled as a sequence of tokens.  A token is a run of          *)
(* characters that the program's regular expressions and string tests      *)
(* never split: "https://", "www.", "instagram.com", a path such as        *)
(* "/p/1", one punctuation character, one white-space character.           *)
(*                                                                         *)
(* A job is suspended at an await; its pc names the call it waits for.     *)
(* One action resumes one job with one answer of the collaborator and runs *)
(* the code up to the next await, as the single-threaded event loop does.  *)
(***************************************************************************)
EXTENDS Integers, Sequences, FiniteSets, TLC

VARIABLES ledger, jobs, client, http

vars == <<ledger, jobs, client, http>>

(***************************************************************************)
(* Bounds of the model.                                                    *)
(***************************************************************************)
\* processRecipe runs started in one behaviour
MaxJobs == 2

(***************************************************************************)
(* Tokens and URLs                                                         *)
(***************************************************************************)
None == <<>>

IgUrl == <<"https://", "www.", "instagram.com", "/p/1">>
WebUrl == <<"https://", "www.", "example.com", "/r">>
LinkUrl == <<"https://", "example.com", "/soup">>

\* the URLs submitted to /ingest and /retry
URLs == {IgUrl, WebUrl}

\* a request body that is not a URL string
BadBody == <<"not a url">>

WhiteSpace == {" ", "\n", "\t"}

IsSpace(t) == t \in WhiteSpace

\* String.prototype.includes on the token sequence
Includes(url, tok) == \E i \in 1..Len(url) : url[i] = tok

Take(s, n) == SubSeq(s, 1, n)

Drop(s, n) == SubSeq(s, n + 1, Len(s))

(***************************************************************************)
(* extractUrlFromCaption                                                   *)
(***************************************************************************)
\* a caption taken as it is
NormalizeNothing(c) == c

\* caption.replace(/\n(?=\S)/g, ''): a newline directly followed by a
\* non-white-space character is removed
RECURSIVE Normalize(_)
Normalize(c) ==
  IF c = <<>> THEN <<>>
  ELSE IF Head(c) = "\n" /\ Len(c) >= 2 /\ ~IsSpace(c[2])
       THEN Normalize(Tail(c))
       ELSE <<Head(c)>> \o Normalize(Tail(c))

\* (?:https?:\/\/|www\.) under the i flag
UrlPrefixes == {"http://", "https://", "www.", "HTTP://", "HTTPS://", "WWW."}

PlatformHosts == {"instagram.com", "Instagram.com", "INSTAGRAM.COM"}

\* (?!(?:www\.)?instagram\.com) looking at the text from position i on
LooksAtPlatform(c, i) ==
  \/ i <= Len(c) /\ c[i] \in PlatformHosts
  \/ i + 1 <= Len(c) /\ c[i] \in {"www.", "WWW."} /\ c[i + 1] \in PlatformHosts

\* the regular expression matches at position i: a prefix, not followed by
\* the platform's host, followed by at least one non-white-space character
MatchesAt(c, i) ==
  /\ c[i] \in UrlPrefixes
  /\ ~LooksAtPlatform(c, i + 1)
  /\ i + 1 <= Len(c)
  /\ ~IsSpace(c[i + 1])

\* [^\s]+ is greedy: the match ends before the next white space
MatchEnd(c, i) ==
  IF \E k \in (i + 1)..Len(c) : IsSpace(c[k])
  THEN (CHOOSE k \in (i + 1)..Len(c) :
          /\ IsSpace(c[k])
          /\ \A m \in (i + 1)..(k - 1) : ~IsSpace(c[m])) - 1
  ELSE Len(c)

TrailingPunctuation == {".", ",", ")", ">", "]"}

\* match[0].replace(/[.,)>\]]+$/, ''): the token "www." ends in a dot, which
\* the replace strips too
RECURSIVE StripTrailing(_)
StripTrailing(u) ==
  IF u = <<>> THEN <<>>
  ELSE IF u[Len(u)] \in TrailingPunctuation THEN StripTrailing(Take(u, Len(u) - 1))
  ELSE IF u[Len(u)] = "www." THEN Take(u, Len(u) - 1) \o <<"www">>
  ELSE IF u[Len(u)] = "WWW." THEN Take(u, Len(u) - 1) \o <<"WWW">>
  ELSE u

\* url.startsWith('http') is case sensitive
StartsWithHttp(u) == u # <<>> /\ u[1] \in {"http://", "https://"}

ExtractUrlFromCaption(caption) ==
  LET c == Normalize(caption)
      hits == {i \in 1..Len(c) : MatchesAt(c, i)}
  IN IF hits = {} THEN None
     ELSE LET i == CHOOSE h \in hits : \A g \in hits : h <= g
              url == StripTrailing(SubSeq(c, i, MatchEnd(c, i)))
          IN IF StartsWithHttp(url) THEN url ELSE <<"https://">> \o url

(***************************************************************************)
(* extractRecipeFromSource: the source classifier                          *)
(***************************************************************************)
IsInstagram(url) == Includes(url, "instagram.com")

\* new URL(url).hostname.replace(/^www\./, ''): the host tokens follow the
\* scheme and end before the first token that starts the path
IsPathToken(t) == t \in {"/p/1", "/r", "/soup", "/", "/?u="}

RECURSIVE HostTokens(_)
HostTokens(rest) ==
  IF rest = <<>> \/ IsPathToken(Head(rest)) THEN <<>>
  ELSE <<Head(rest)>> \o HostTokens(Tail(rest))

Hostname(url) == HostTokens(Tail(url))

StripWww(h) == IF h # <<>> /\ h[1] = "www." THEN Tail(h) ELSE h

(***************************************************************************)
(* url-fetcher: fetchHtml, extractJsonLd, extractOpenGraphImageUrl         *)
(***************************************************************************)
\* A JSON value found in a script block (or as an element of an array):
\* kind is "null", "scalar" (number, string, boolean), "object" or "array";
\* type is the object's @type; hasGraph says that the object's @graph is an
\* array, whose elements are then items; an array's elements are items.
JVal(kind, type, hasGraph, items, id) ==
  [kind |-> kind, type |-> type, hasGraph |-> hasGraph, items |-> items, id |-> id]

JNull == JVal("null", "", FALSE, <<>>, "")
JScalar == JVal("scalar", "", FALSE, <<>>, "")
JObject(type, id) == JVal("object", type, FALSE, <<>>, id)
JGraph(type, items) == JVal("object", type, TRUE, items, "")
JArray(items) == JVal("array", "", FALSE, items, "")

\* a script block of type application/ld+json: its text parses as JSON or not
Block(valid, data) == [valid |-> valid, data |-> data]

BadBlock == Block(FALSE, JNull)

\* a page: its JSON-LD blocks in document order and its og:image content
\* ("" when the page has no such meta tag)
Html(blocks, og) == [blocks |-> blocks, og |-> og]

NoHtml == Html(<<>>, "")

\* what the network gives fetch(): net is "ok", "timeout" (the 10 s
\* AbortSignal fired) or "error"; status and body are read when net is "ok"
PageAnswer(net, status, body) == [net |-> net, status |-> status, body |-> body]

\* response.ok
StatusOk(status) == status >= 200 /\ status <= 299

\* fetchHtml: throws when fetch rejects or the status is not 2xx
FetchHtml(a) ==
  IF a.net = "timeout" THEN [threw |-> TRUE, error |-> "TimeoutError", html |-> NoHtml]
  ELSE IF a.net # "ok" THEN [threw |-> TRUE, error |-> "fetch failed", html |-> NoHtml]
  ELSE IF ~StatusOk(a.status) THEN [threw |-> TRUE, error |-> "HTTP error", html |-> NoHtml]
  ELSE [threw |-> FALSE, error |-> "", html |-> a.body]

\* Array.isArray(data) ? data : Array.isArray(data['@graph']) ? data['@graph'] : [data]
\* (reading a property of null throws a TypeError)
ItemsThrows(data) == data.kind = "null"

Items(data) ==
  IF data.kind = "array" THEN data.items
  ELSE IF data.kind = "object" /\ data.hasGraph THEN data.items
  ELSE <<data>>

\* item && typeof item === 'object' && item['@type'] === 'Recipe'
IsRecipeItem(item) == item.kind = "object" /\ item.type = "Recipe"

FindRecipe(items) ==
  LET hits == {i \in 1..Len(items) : IsRecipeItem(items[i])}
  IN IF hits = {} THEN JNull
     ELSE items[CHOOSE h \in hits : \A g \in hits : h <= g]

\* extractJsonLd: the while loop over the script blocks
RECURSIVE ExtractJsonLdFrom(_)
ExtractJsonLdFrom(blocks) ==
  IF blocks = <<>> THEN [threw |-> FALSE, value |-> JNull]
  ELSE LET b == Head(blocks) IN
       IF ~b.valid THEN ExtractJsonLdFrom(Tail(blocks))
       ELSE IF ItemsThrows(b.data) THEN [threw |-> TRUE, value |-> JNull]
       ELSE IF FindRecipe(Items(b.data)) # JNull
            THEN [threw |-> FALSE, value |-> FindRecipe(Items(b.data))]
            ELSE ExtractJsonLdFrom(Tail(blocks))

ExtractJsonLd(html) == ExtractJsonLdFrom(html.blocks)

ExtractOpenGraphImageUrl(html) == html.og

(***************************************************************************)
(* apify: fetchInstagramPost, getPostImageUrl, downloadImage               *)
(***************************************************************************)
\* "" stands for an absent (undefined) string field
Post(caption, full, user, type, displayUrl, thumbnailUrl, images) ==
  [caption |-> caption, ownerFullName |-> full, ownerUsername |-> user,
   type |-> type, displayUrl |-> displayUrl, thumbnailUrl |-> thumbnailUrl,
   images |-> images]

NoPost == Post(<<>>, "", "", "", "", "", <<>>)

\* a selection that knows the display image alone
GetPostImageUrlDisplayOnly(post) == post.displayUrl

GetPostImageUrl(post) ==
  IF post.type = "Sidecar" /\ Len(post.images) > 0 THEN post.images[1]
  ELSE IF post.type = "Video" /\ post.thumbnailUrl # "" THEN post.thumbnailUrl
  ELSE post.displayUrl

\* what the Apify sync run gives: net "ok" or "error", the status, the items
ApifyAnswer(net, status, results) == [net |-> net, status |-> status, results |-> results]

FetchInstagramPost(a) ==
  IF a.net # "ok" THEN [threw |-> TRUE, error |-> "fetch failed", post |-> NoPost]
  ELSE IF ~StatusOk(a.status)
       THEN [threw |-> TRUE, error |-> "Apify sync run failed", post |-> NoPost]
  ELSE IF Len(a.results) = 0
       THEN [threw |-> TRUE, error |-> "No results returned from Apify", post |-> NoPost]
  ELSE [threw |-> FALSE, error |-> "", post |-> a.results[1]]

\* what the image request gives; contentType "" is a missing header
ImageAnswer(net, status, contentType) ==
  [net |-> net, status |-> status, contentType |-> contentType]

NoPhoto == ""

\* downloadImage: a Buffer ("bytes") or undefined, never a throw
DownloadImage(a) ==
  IF a.net # "ok" THEN NoPhoto
  ELSE IF ~StatusOk(a.status) THEN NoPhoto
  ELSE IF a.contentType \notin {"image/jpeg", "image/png"} THEN NoPhoto
  ELSE "bytes"

(***************************************************************************)
(* parser: the zod schemas and the three entry points                      *)
(***************************************************************************)
\* A JSON scalar as the schemas see it: t is "str", "num" or "null".
Str(x) == [t |-> "str", s |-> x, n |-> 0]
Num(x) == [t |-> "num", s |-> "", n |-> x]
Null == [t |-> "null", s |-> "", n |-> 0]

\* An object key is absent (<<>>) or present with a value (<<v>>).
Absent == <<>>
Some(v) == <<v>>

\* z.string(), z.number()
IsString(o) == Len(o) = 1 /\ o[1].t = "str"
IsNumber(o) == Len(o) = 1 /\ o[1].t = "num"

\* .optional(): the key is absent or holds a value of the type
OptString(o) == o = Absent \/ IsString(o)
OptNumber(o) == o = Absent \/ IsNumber(o)

Ingredient(name, quantity, note) == [name |-> name, quantity |-> quantity, note |-> note]

\* IngredientSchema
IngredientSchema(i) == IsString(i.name) /\ OptString(i.quantity) /\ OptString(i.note)

\* a recipe object as the model wrote it; ingredients and steps are absent or
\* arrays; extra says that the object carries a key the schema does not know
RecipeValue(name, servings, prepTime, cookTime, ingredients, steps, notes, extra) ==
  [name |-> name, servings |-> servings, prepTime |-> prepTime, cookTime |-> cookTime,
   ingredients |-> ingredients, steps |-> steps, notes |-> notes, extra |-> extra]

\* RecipeSchema
RecipeSchema(r) ==
  /\ IsString(r.name)
  /\ OptString(r.servings)
  /\ OptNumber(r.prepTime)
  /\ OptNumber(r.cookTime)
  /\ Len(r.ingredients) = 1
  /\ \A k \in 1..Len(r.ingredients[1]) : IngredientSchema(r.ingredients[1][k])
  /\ Len(r.steps) = 1
  /\ \A k \in 1..Len(r.steps[1]) : r.steps[1][k].t = "str"
  /\ OptString(r.notes)

\* z.object() drops the keys the schema does not know
RecipeParsed(r) == [r EXCEPT !.extra = FALSE]

NoRecipe == RecipeValue(Absent, Absent, Absent, Absent, Absent, Absent, Absent, FALSE)

\* JSON text of an object, as the sequence of its members in the order
\* of the keys; Member is one "key": value
Member(key, value) == [key |-> key, value |-> value]

\* the members JSON.stringify writes for the keys ks of the object o: a key
\* whose value is undefined is left out
RECURSIVE Members(_, _)
Members(o, ks) ==
  IF ks = <<>> THEN <<>>
  ELSE (IF o[Head(ks)] = Absent THEN <<>> ELSE <<Member(Head(ks), o[Head(ks)][1])>>)
       \o Members(o, Tail(ks))

IngredientKeys == <<"name", "quantity", "note">>

ScalarKeys == <<"name", "servings", "prepTime", "cookTime", "notes">>

\* JSON.stringify of a recipe: the scalar members, the arrays (each
\* ingredient an object of its own), and the key the schema does not know
\* when the object carries one
Stringify(r) ==
  Members(r, ScalarKeys)
  \o (IF r.ingredients = Absent THEN <<>>
      ELSE <<Member("ingredients",
                    [k \in 1..Len(r.ingredients[1]) |->
                       Members(r.ingredients[1][k], IngredientKeys)])>>)
  \o (IF r.steps = Absent THEN <<>> ELSE <<Member("steps", r.steps[1])>>)
  \o (IF r.extra THEN <<Member("extra", Null)>> ELSE <<>>)

\* the value of key in the members ms: absent when no member has the key
Lookup(ms, key) ==
  LET hits == {i \in 1..Len(ms) : ms[i].key = key}
  IN IF hits = {} THEN Absent ELSE Some(ms[CHOOSE i \in hits : TRUE].value)

\* JSON.parse of the text of a recipe
JsonParse(ms) ==
  RecipeValue(Lookup(ms, "name"), Lookup(ms, "servings"), Lookup(ms, "prepTime"),
              Lookup(ms, "cookTime"),
              IF Lookup(ms, "ingredients") = Absent THEN Absent
              ELSE LET is == Lookup(ms, "ingredients")[1]
                   IN Some([k \in 1..Len(is) |->
                              Ingredient(Lookup(is[k], "name"), Lookup(is[k], "quantity"),
                                         Lookup(is[k], "note"))]),
              Lookup(ms, "steps"), Lookup(ms, "notes"),
              \E i \in 1..Len(ms) :
                ms[i].key \notin {"name", "servings", "prepTime", "cookTime",
                                  "ingredients", "steps", "notes"})

\* the JSON document of the model's answer: is_recipe is "true", "false" or
\* "other" (absent or not a boolean)
Answer(is_recipe, reason, confidence, recipe) ==
  [is_recipe |-> is_recipe, reason |-> reason, confidence |-> confidence, recipe |-> recipe]

\* a union whose recipe branch takes any object for the recipe
ParseResultSchemaAnyRecipe(a) ==
  \/ a.is_recipe = "false" /\ IsString(a.reason)
  \/ /\ a.is_recipe = "true"
     /\ IsNumber(a.confidence)
     /\ Len(a.recipe) = 1

\* ParseResultSchema: the discriminated union on is_recipe
ParseResultSchema(a) ==
  \/ a.is_recipe = "false" /\ IsString(a.reason)
  \/ /\ a.is_recipe = "true"
     /\ IsNumber(a.confidence)
     /\ Len(a.recipe) = 1
     /\ RecipeSchema(a.recipe[1])

\* what client.beta.messages.create gives: api is "ok" or "error" (the call
\* rejects); type is the type of content[0]; json says whether its text
\* parses as JSON, to the document answer
Response(api, type, json, answer) ==
  [api |-> api, type |-> type, json |-> json, answer |-> answer]

\* ParseResult: is_recipe, with the reason or the recipe
ParseResult(is_recipe, reason, confidence, recipe) ==
  [is_recipe |-> is_recipe, reason |-> reason, confidence |-> confidence, recipe |-> recipe]

NoResult == ParseResult(FALSE, "", 0, NoRecipe)

Threw(msg) == [threw |-> TRUE, error |-> msg, result |-> NoResult]

\* a parser that takes a document the schema rejects for a rejection
ParseResponseSafeParse(r) ==
  IF r.api # "ok" THEN Threw("API error")
  ELSE IF r.type # "text" THEN Threw("Unexpected response type")
  ELSE IF ~r.json THEN Threw("Unexpected token in JSON")
  ELSE IF ~ParseResultSchema(r.answer) \/ r.answer.is_recipe = "false"
       THEN [threw |-> FALSE, error |-> "",
             result |-> ParseResult(FALSE, "invalid", 0, NoRecipe)]
       ELSE [threw |-> FALSE, error |-> "",
             result |-> ParseResult(TRUE, "", r.answer.confidence[1].n,
                                    RecipeParsed(r.answer.recipe[1]))]

\* a parser that validates the document and then returns it as it was read
ParseResponseRaw(r) ==
  IF r.api # "ok" THEN Threw("API error")
  ELSE IF r.type # "text" THEN Threw("Unexpected response type")
  ELSE IF ~r.json THEN Threw("Unexpected token in JSON")
  ELSE IF ~ParseResultSchema(r.answer) THEN Threw("ZodError")
  ELSE IF r.answer.is_recipe = "false"
       THEN [threw |-> FALSE, error |-> "",
             result |-> ParseResult(FALSE, r.answer.reason[1].s, 0, NoRecipe)]
       ELSE [threw |-> FALSE, error |-> "",
             result |-> ParseResult(TRUE, "", r.answer.confidence[1].n, r.answer.recipe[1])]

\* a parser that turns a recipe of confidence below 0.7 into a rejection
ParseResponseThreshold(r) ==
  IF r.api # "ok" THEN Threw("API error")
  ELSE IF r.type # "text" THEN Threw("Unexpected response type")
  ELSE IF ~r.json THEN Threw("Unexpected token in JSON")
  ELSE IF ~ParseResultSchema(r.answer) THEN Threw("ZodError")
  ELSE IF r.answer.is_recipe = "false"
       THEN [threw |-> FALSE, error |-> "",
             result |-> ParseResult(FALSE, r.answer.reason[1].s, 0, NoRecipe)]
       ELSE IF r.answer.confidence[1].n < 7
       THEN [threw |-> FALSE, error |-> "",
             result |-> ParseResult(FALSE, "low confidence", 0, NoRecipe)]
       ELSE [threw |-> FALSE, error |-> "",
             result |-> ParseResult(TRUE, "", r.answer.confidence[1].n,
                                    RecipeParsed(r.answer.recipe[1]))]

\* the body shared by parseRecipe, parseRecipeFromJsonLdAndCaption and
\* parseRecipeFromJsonLd after the request: the text check, JSON.parse and
\* ParseResultSchema.parse
ParseResponse(r) ==
  IF r.api # "ok" THEN Threw("API error")
  ELSE IF r.type # "text" THEN Threw("Unexpected response type")
  ELSE IF ~r.json THEN Threw("Unexpected token in JSON")
  ELSE IF ~ParseResultSchema(r.answer) THEN Threw("ZodError")
  ELSE IF r.answer.is_recipe = "false"
       THEN [threw |-> FALSE, error |-> "",
             result |-> ParseResult(FALSE, r.answer.reason[1].s, 0, NoRecipe)]
       ELSE [threw |-> FALSE, error |-> "",
             result |-> ParseResult(TRUE, "", r.answer.confidence[1].n,
                                    RecipeParsed(r.answer.recipe[1]))]

\* parseRecipe(caption)
ParseRecipe(r) == ParseResponse(r)

\* parseRecipeFromJsonLdAndCaption(jsonLd, caption)
ParseRecipeFromJsonLdAndCaption(r) == ParseResponse(r)

\* parseRecipeFromJsonLd(jsonLd)
ParseRecipeFromJsonLd(r) == ParseResponse(r)

(***************************************************************************)
(* What the collaborators can answer                                       *)
(***************************************************************************)
CapNoLink == <<"Yum", " ", "soup">>
CapLink == <<"Recipe", ":", " ", "https://", "example.com", "/soup", ".", " ", "Enjoy">>

PostLink == Post(CapLink, "Ann Lee", "ann", "Photo", "img1", "", <<>>)
PostNoLink == Post(CapNoLink, "Ann Lee", "ann", "Photo", "img1", "", <<>>)
PostBare == Post(CapNoLink, "", "bob", "Video", "", "", <<>>)

Posts == {PostLink, PostNoLink, PostBare}

ApifyAnswers ==
  {ApifyAnswer("error", 0, <<>>), ApifyAnswer("ok", 500, <<>>), ApifyAnswer("ok", 200, <<>>)}
  \cup {ApifyAnswer("ok", 200, <<p>>) : p \in Posts}

RecipeLd == JObject("Recipe", "r1")

PageRecipe ==
  Html(<<BadBlock, Block(TRUE, JGraph("", <<JObject("WebSite", "w"), RecipeLd>>))>>, "og1")
PageRecipeNoOg == Html(<<Block(TRUE, JArray(<<JScalar, RecipeLd>>))>>, "")
PageArticle == Html(<<Block(TRUE, JObject("Article", "a")), BadBlock>>, "og1")
PageNull == Html(<<Block(TRUE, JNull)>>, "")

Pages == {PageRecipe, PageRecipeNoOg, PageArticle, PageNull}

PageAnswers ==
  {PageAnswer("timeout", 0, NoHtml), PageAnswer("error", 0, NoHtml),
   PageAnswer("ok", 404, NoHtml)}
  \cup {PageAnswer("ok", 200, h) : h \in Pages}

Soup ==
  RecipeValue(Some(Str("Soup")), Some(Str("4 servings")), Some(Num(20)), Absent,
              Some(<<Ingredient(Some(Str("beef")), Some(Str("1.5 lbs")), Absent)>>),
              Some(<<Str("Boil.")>>), Absent, TRUE)

\* a recipe object without a name
Nameless == [Soup EXCEPT !.name = Absent]

\* confidence is counted in tenths: 10 is 1.0
Responses ==
  {Response("error", "", FALSE, Answer("other", Absent, Absent, Absent)),
   Response("ok", "tool_use", FALSE, Answer("other", Absent, Absent, Absent)),
   Response("ok", "text", FALSE, Answer("other", Absent, Absent, Absent)),
   Response("ok", "text", TRUE, Answer("true", Absent, Some(Num(10)), Some(Nameless))),
   Response("ok", "text", TRUE, Answer("false", Some(Str("no ingredients")), Absent, Absent)),
   Response("ok", "text", TRUE, Answer("true", Absent, Some(Num(10)), Some(Soup)))}

NoResponse == Response("", "", FALSE, Answer("other", Absent, Absent, Absent))

ImageAnswers ==
  {ImageAnswer("error", 0, ""), ImageAnswer("ok", 404, ""),
   ImageAnswer("ok", 200, "text/html"), ImageAnswer("ok", 200, "image/jpeg")}

(***************************************************************************)
(* The ledger: table import_attempts, one row per URL                      *)
(***************************************************************************)
\* imported_at 0 is NULL; a time stamp is a reading of the clock Now
Row(present, attempts_count, requested_at, imported_at) ==
  [present |-> present, attempts_count |-> attempts_count,
   requested_at |-> requested_at, imported_at |-> imported_at]

NoRow == Row(FALSE, 0, 0, 0)

\* new Date(): the clock advances with every row inserted and job started
Now == Cardinality({u \in URLs : ledger[u].present}) + Len(jobs) + 1

\* insert_ingested_url: fails on the UNIQUE constraint when the row exists
insert_ingested_url(l, url, now) == [l EXCEPT ![url] = Row(TRUE, 0, now, 0)]

\* a statement that leaves the counter as it is
update_count_never(l, url) == l

\* update_count_for_url: changes the rows WHERE url = @url
update_count_for_url(l, url) ==
  IF url \in DOMAIN l /\ l[url].present
  THEN [l EXCEPT ![url].attempts_count = @ + 1]
  ELSE l

\* an UPDATE without its WHERE clause: every row gets the time
update_imported_at_everywhere(l, url, now) ==
  [u \in DOMAIN l |-> IF l[u].present THEN [l[u] EXCEPT !.imported_at = now] ELSE l[u]]

\* update_imported_at_for_url
update_imported_at_for_url(l, url, now) ==
  IF url \in DOMAIN l /\ l[url].present
  THEN [l EXCEPT ![url].imported_at = now]
  ELSE l

\* a list that shows a row only from its second attempt on
IsFailedRowTwice(r) == r.present /\ r.imported_at = 0 /\ r.attempts_count > 1

\* get_failed_urls: WHERE imported_at IS NULL AND attempts_count > 0
IsFailedRow(r) == r.present /\ r.imported_at = 0 /\ r.attempts_count > 0

FailedSet(l) == {u \in URLs : IsFailedRow(l[u])}

\* ORDER BY requested_at DESC
RECURSIVE OrderByRequestedDesc(_, _)
OrderByRequestedDesc(l, us) ==
  IF us = {} THEN <<>>
  ELSE LET u == CHOOSE x \in us : \A y \in us : l[x].requested_at >= l[y].requested_at
       IN <<u>> \o OrderByRequestedDesc(l, us \ {u})

get_failed_urls(l) == OrderByRequestedDesc(l, FailedSet(l))

(***************************************************************************)
(* processRecipe and the extraction routes                                 *)
(***************************************************************************)
NoPage == PageAnswer("", 0, NoHtml)

NoImage == ImageAnswer("", 0, "")

\* A job is one run of processRecipe.  pc is the call it awaits ("done"
\* once its promise has resolved); log lists the calls it has made, in
\* order; page, response and image are the answers it has read from the
\* linked or ingested page, the model and the image host; imageUrl is the
\* cover image selected ("" when there is none); failed is the
\* call whose error reached the catch block of processRecipe.  When the
\* promise resolves the locals are gone: a done job keeps its url and its
\* outcome, "created", "notRecipe" or "error".
NewJob(url) ==
  [url |-> url, pc |-> "start", log |-> <<>>,
   post |-> NoPost, linkedUrl |-> None, enrichFailed |-> FALSE,
   page |-> NoPage, html |-> NoHtml, jsonLd |-> JNull, response |-> NoResponse,
   imageUrl |-> "", image |-> NoImage, failed |-> "",
   extraction |-> "none", reason |-> "", recipe |-> NoRecipe,
   sourceUrl |-> url, sourceName |-> None, photo |-> NoPhoto,
   session |-> 0, created |-> "", err |-> "", outcome |-> ""]

Call(job, name) == [job EXCEPT !.pc = name, !.log = Append(@, name)]

\* the catch block of processRecipe: the message goes to notifyError
Catch(job, step, msg) == [Call(job, "notifyError") EXCEPT !.err = msg, !.failed = step]

\* a result that reports a reason of its own
NotRecipeFixedReason(job, reason) ==
  [Call(job, "notifyNotRecipe") EXCEPT !.extraction = "notRecipe", !.reason = "Not a recipe"]

\* processRecipe after extractRecipeFromSource returned { ok: false, reason }
NotRecipe(job, reason) ==
  [Call(job, "notifyNotRecipe") EXCEPT !.extraction = "notRecipe", !.reason = reason]

\* what notifyNotRecipe sends: the reason is the message, and the URL given
\* to processRecipe is the link of the notification
NotifyNotRecipeArgs(job) == [message |-> job.reason, click |-> job.url]

\* createRecipe up to its first pending call: ensureLoggedIn returns at once
\* when a session exists, and else awaits AnyListClient.login
CreateRecipe(job, session) ==
  IF session # 0 THEN Call(job, "createRecipe") ELSE Call(job, "login")

\* processRecipe after extractRecipeFromSource returned { ok: true, value }
Extracted(job, sourceName, photo, session) ==
  CreateRecipe([job EXCEPT !.extraction = "ok", !.sourceName = sourceName,
                           !.photo = photo], session)

\* post.ownerFullName || post.ownerUsername
InstagramSourceName(post) ==
  <<IF post.ownerFullName # "" THEN post.ownerFullName ELSE post.ownerUsername>>

\* a replace that removes every leading "www."
RECURSIVE StripEveryWww(_)
StripEveryWww(h) == IF h # <<>> /\ h[1] = "www." THEN StripEveryWww(Tail(h)) ELSE h

UrlSourceNameEveryWww(url) == StripEveryWww(Hostname(url))

\* new URL(url).hostname.replace(/^www\./, '')
UrlSourceName(url) == StripWww(Hostname(url))

\* extractRecipeFromInstagram from line 174 on: the cover image
InstagramImage(job, session) ==
  LET selected == [job EXCEPT !.imageUrl = GetPostImageUrl(job.post)]
  IN IF selected.imageUrl # ""
     THEN Call(selected, "downloadImage")
     ELSE Extracted(selected, InstagramSourceName(job.post), NoPhoto, session)

\* a choice of parser that looks at the link alone
ChooseByLink(job) ==
  IF job.linkedUrl # None
  THEN Call(job, "parseRecipeFromJsonLdAndCaption")
  ELSE Call(job, "parseRecipe")

\* a choice that hands structured data to the parser of the direct route
ChooseParserStructuredOnly(job) ==
  IF job.jsonLd # JNull /\ job.linkedUrl # None
  THEN Call(job, "parseRecipeFromJsonLd")
  ELSE Call(job, "parseRecipe")

\* extractRecipeFromInstagram, lines 153-172: which parser is called
ChooseParser(job) ==
  IF job.jsonLd # JNull /\ job.linkedUrl # None
  THEN Call(job, "parseRecipeFromJsonLdAndCaption")
  ELSE Call(job, "parseRecipe")

\* extractRecipeFromSource
Route(job) ==
  IF IsInstagram(job.url) THEN Call(job, "fetchInstagramPost") ELSE Call(job, "fetchHtml")

\* processRecipe up to its first await
ProcessRecipe(url) ==
  Route([NewJob(url) EXCEPT !.log = <<"update_count_for_url">>])

InFlight(job) == job.pc # "done"

Awaits(j, name) == j \in 1..Len(jobs) /\ jobs[j].pc = name

Resume(j, job) == jobs' = [jobs EXCEPT ![j] = job]

\* a promise that stays pending
FinishNever(job, outcome) == job

Finish(job, outcome) == [NewJob(job.url) EXCEPT !.pc = "done", !.outcome = outcome]

\* no handler ran in this step
NoHttp == [route |-> "", status |-> 0, steps |-> <<>>]

Quiet == http = NoHttp /\ http' = NoHttp

\* fetchInstagramPost settles: extractRecipeFromInstagram, lines 146-148
FetchInstagramPostReturns(j, w) ==
  /\ Awaits(j, "fetchInstagramPost")
  /\ \E a \in w.apify :
       LET r == FetchInstagramPost(a)
           linked == ExtractUrlFromCaption(r.post.caption)
           job == [jobs[j] EXCEPT !.post = r.post, !.linkedUrl = linked]
       IN Resume(j, IF r.threw THEN Catch(jobs[j], "fetchInstagramPost", r.error)
                    ELSE IF linked # None THEN Call(job, "tryFetchJsonLd")
                    ELSE ChooseParser(job))
  /\ Quiet
  /\ UNCHANGED <<ledger, client>>

\* a tryFetchJsonLd whose catch block gives an empty object
TryFetchJsonLdEmptyObject(a) ==
  LET f == FetchHtml(a)
      e == ExtractJsonLd(f.html)
  IN IF f.threw THEN [failed |-> TRUE, jsonLd |-> JObject("", "")]
     ELSE IF e.threw THEN [failed |-> TRUE, jsonLd |-> JObject("", "")]
     ELSE [failed |-> FALSE, jsonLd |-> e.value]

\* tryFetchJsonLd settles: every failure gives null
TryFetchJsonLd(a) ==
  LET f == FetchHtml(a)
      e == ExtractJsonLd(f.html)
  IN IF f.threw THEN [failed |-> TRUE, jsonLd |-> JNull]
     ELSE IF e.threw THEN [failed |-> TRUE, jsonLd |-> JNull]
     ELSE [failed |-> FALSE, jsonLd |-> e.value]

TryFetchJsonLdReturns(j, w) ==
  /\ Awaits(j, "tryFetchJsonLd")
  /\ \E a \in w.pages :
       LET r == TryFetchJsonLd(a)
       IN Resume(j, ChooseParser([jobs[j] EXCEPT !.page = a, !.jsonLd = r.jsonLd,
                                                 !.enrichFailed = r.failed]))
  /\ Quiet
  /\ UNCHANGED <<ledger, client>>

\* parseRecipeFromJsonLdAndCaption settles: lines 161-164
ParseRecipeFromJsonLdAndCaptionReturns(j, w) ==
  /\ Awaits(j, "parseRecipeFromJsonLdAndCaption")
  /\ \E resp \in w.responses :
       LET r == ParseRecipeFromJsonLdAndCaption(resp)
           job == [jobs[j] EXCEPT !.response = resp]
       IN Resume(j, IF r.threw THEN Catch(job, "parseRecipeFromJsonLdAndCaption", r.error)
                    ELSE IF ~r.result.is_recipe THEN NotRecipe(job, r.result.reason)
                    ELSE InstagramImage([job EXCEPT !.recipe = r.result.recipe,
                                                    !.sourceUrl = job.linkedUrl], client))
  /\ Quiet
  /\ UNCHANGED <<ledger, client>>

\* parseRecipe settles: lines 169-171
ParseRecipeReturns(j, w) ==
  /\ Awaits(j, "parseRecipe")
  /\ \E resp \in w.responses :
       LET r == ParseRecipe(resp)
           job == [jobs[j] EXCEPT !.response = resp]
       IN Resume(j, IF r.threw THEN Catch(job, "parseRecipe", r.error)
                    ELSE IF ~r.result.is_recipe THEN NotRecipe(job, r.result.reason)
                    ELSE InstagramImage([job EXCEPT !.recipe = r.result.recipe], client))
  /\ Quiet
  /\ UNCHANGED <<ledger, client>>

\* fetchHtml settles on the direct route: extractRecipeFromUrl, lines 192-199
FetchHtmlReturns(j, w) ==
  /\ Awaits(j, "fetchHtml")
  /\ \E a \in w.pages :
       LET f == FetchHtml(a)
           e == ExtractJsonLd(f.html)
           read == [jobs[j] EXCEPT !.page = a, !.html = f.html]
           job == [read EXCEPT !.jsonLd = e.value]
       IN Resume(j, IF f.threw THEN Catch(read, "fetchHtml", f.error)
                    ELSE IF e.threw THEN Catch(read, "extractJsonLd", "TypeError")
                    ELSE IF e.value = JNull
                         THEN NotRecipe(job, "No Recipe JSON-LD found on page")
                    ELSE Call(job, "parseRecipeFromJsonLd"))
  /\ Quiet
  /\ UNCHANGED <<ledger, client>>

\* parseRecipeFromJsonLd settles: lines 199-203
ParseRecipeFromJsonLdReturns(j, w) ==
  /\ Awaits(j, "parseRecipeFromJsonLd")
  /\ \E resp \in w.responses :
       LET r == ParseRecipeFromJsonLd(resp)
           job == [jobs[j] EXCEPT !.response = resp]
           withRecipe == [job EXCEPT !.recipe = r.result.recipe,
                                     !.imageUrl = ExtractOpenGraphImageUrl(job.html)]
       IN Resume(j, IF r.threw THEN Catch(job, "parseRecipeFromJsonLd", r.error)
                    ELSE IF ~r.result.is_recipe THEN NotRecipe(job, r.result.reason)
                    ELSE IF ExtractOpenGraphImageUrl(job.html) # ""
                         THEN Call(withRecipe, "downloadImage")
                    ELSE Extracted(withRecipe, UrlSourceName(job.url), NoPhoto, client))
  /\ Quiet
  /\ UNCHANGED <<ledger, client>>

\* a download without the try/catch: a failed request is the job's error
DownloadImageReturnsThrows(j, w) ==
  /\ Awaits(j, "downloadImage")
  /\ \E a \in w.images :
       Resume(j, IF DownloadImage(a) = NoPhoto
                 THEN Catch([jobs[j] EXCEPT !.image = a], "downloadImage", "fetch failed")
                 ELSE Extracted([jobs[j] EXCEPT !.image = a],
                                IF IsInstagram(jobs[j].url)
                                THEN InstagramSourceName(jobs[j].post)
                                ELSE UrlSourceName(jobs[j].url),
                                DownloadImage(a), client))
  /\ Quiet
  /\ UNCHANGED <<ledger, client>>

\* downloadImage settles, on either route: lines 175-185 and 203-213
DownloadImageReturns(j, w) ==
  /\ Awaits(j, "downloadImage")
  /\ \E a \in w.images :
       Resume(j, Extracted([jobs[j] EXCEPT !.image = a],
                           IF IsInstagram(jobs[j].url)
                           THEN InstagramSourceName(jobs[j].post)
                           ELSE UrlSourceName(jobs[j].url),
                           DownloadImage(a), client))
  /\ Quiet
  /\ UNCHANGED <<ledger, client>>

(***************************************************************************)
(* anylist: the session and the write; notify: the three notifications     *)
(***************************************************************************)
\* AnyListClient.login settles: ensureLoggedIn stores the session (the
\* session a job creates carries the job's number), and createRecipe goes
\* on to client.createRecipe; a rejected login throws out of createRecipe
LoginReturns(j) ==
  /\ Awaits(j, "login")
  /\ \/ /\ client' = j
        /\ Resume(j, Call([jobs[j] EXCEPT !.session = j], "createRecipe"))
     \/ /\ client' = client
        /\ Resume(j, Catch(jobs[j], "login", "login failed"))
  /\ Quiet
  /\ UNCHANGED ledger

\* the object processRecipe passes to createRecipe: index.ts, lines 180-186
CreateRecipeArgs(job) ==
  [recipe |-> job.recipe, sourceUrl |-> job.sourceUrl, sourceName |-> job.sourceName,
   photo |-> job.photo]

\* destructuring: a key the object does not have gives undefined, which a
\* template literal writes as "undefined"
Destructure(args, key) == IF key \in DOMAIN args THEN args[key] ELSE <<"undefined">>

\* recipe.prepTime ?? 0
OrZero(o) == IF o = Absent THEN Num(0) ELSE o[1]

\* the record createRecipe sends to client.createRecipe: anylist.ts, lines
\* 41-47 and 59-75
ClientCreateRecipe(args) ==
  LET recipe == Destructure(args, "recipe")
      sourceUrl == Destructure(args, "sourceUrl")
      sourceUsername == Destructure(args, "sourceUsername")
  IN [name |-> recipe.name,
      ingredients |-> [k \in 1..Len(recipe.ingredients[1]) |->
                         [name |-> recipe.ingredients[1][k].name,
                          quantity |-> recipe.ingredients[1][k].quantity,
                          note |-> recipe.ingredients[1][k].note]],
      preparationSteps |-> recipe.steps[1],
      note |-> recipe.notes,
      servings |-> recipe.servings,
      prepTime |-> OrZero(recipe.prepTime),
      cookTime |-> OrZero(recipe.cookTime),
      sourceName |-> <<"Instagram @">> \o sourceUsername,
      sourceUrl |-> sourceUrl]

\* what the list service answers to client.createRecipe: the recipe is
\* created, the session is rejected, or the write fails otherwise
WriteAnswers == {"created", "unauthorized", "failed"}

\* a job that records the completion time before it notifies
CreateRecipeReturnsStampsFirst(j, w) ==
  /\ Awaits(j, "createRecipe")
  /\ \E a \in w.writes :
       /\ Resume(j, IF a = "created"
                    THEN Call([jobs[j] EXCEPT !.created = "Soup"], "notifySuccess")
                    ELSE Catch(jobs[j], "createRecipe", a))
       /\ ledger' = IF a = "created"
                    THEN update_imported_at_for_url(ledger, jobs[j].url, Now)
                    ELSE ledger
  /\ Quiet
  /\ UNCHANGED client

\* client.createRecipe settles: createRecipe, lines 59-82, and processRecipe,
\* lines 180-189; a rejection of any kind propagates to processRecipe
CreateRecipeReturns(j, w) ==
  /\ Awaits(j, "createRecipe")
  /\ \E a \in w.writes :
       Resume(j, IF a = "created"
                 THEN Call([jobs[j] EXCEPT !.created = "Soup"], "notifySuccess")
                 ELSE Catch(jobs[j], "createRecipe", a))
  /\ Quiet
  /\ UNCHANGED <<ledger, client>>

\* notifySuccess settles: processRecipe, lines 189-190
NotifySuccessReturns(j) ==
  /\ Awaits(j, "notifySuccess")
  /\ \/ /\ ledger' = update_imported_at_for_url(ledger, jobs[j].url, Now)
        /\ Resume(j, Finish(jobs[j], "created"))
     \/ /\ ledger' = ledger
        /\ Resume(j, Catch(jobs[j], "notifySuccess", "ntfy.sh error"))
  /\ Quiet
  /\ UNCHANGED client

\* notifyNotRecipe settles: processRecipe, lines 174-175
NotifyNotRecipeReturns(j) ==
  /\ Awaits(j, "notifyNotRecipe")
  /\ \/ Resume(j, Finish(jobs[j], "notRecipe"))
     \/ Resume(j, Catch(jobs[j], "notifyNotRecipe", "ntfy.sh error"))
  /\ Quiet
  /\ UNCHANGED <<ledger, client>>

\* a catch block without the inner try: a failure of notifyError rejects the
\* promise of processRecipe
NotifyErrorReturnsUncaught(j) ==
  /\ Awaits(j, "notifyError")
  /\ \/ Resume(j, Finish(jobs[j], "error"))
     \/ Resume(j, Finish(jobs[j], "rejected"))
  /\ Quiet
  /\ UNCHANGED <<ledger, client>>

\* notifyError settles: processRecipe, lines 194-198; its failure is logged
NotifyErrorReturns(j) ==
  /\ Awaits(j, "notifyError")
  /\ Resume(j, Finish(jobs[j], "error"))
  /\ Quiet
  /\ UNCHANGED <<ledger, client>>

(***************************************************************************)
(* The HTTP handlers                                                       *)
(***************************************************************************)
\* the handler's answer and what it did, in order
Http(route, status, steps) == [route |-> route, status |-> status, steps |-> steps]

\* a check that lets every bearer token pass
RequireAuthAnyBearer(auth) ==
  IF auth = "none" THEN 401 ELSE 0

\* requireAuth: the Authorization header is "none", "bad" or "good"
RequireAuth(auth) ==
  IF auth = "none" THEN 401 ELSE IF auth = "bad" THEN 401 ELSE 0

\* IngestRequestSchema: url is a URL string
IngestRequestSchema(body) == body \in URLs

\* a handler that starts the job and then answers
IngestStepsJobFirst == <<"insert_ingested_url", "processRecipe", "respond">>

\* what POST /ingest does for a new URL, in order: lines 128-148
IngestSteps == <<"insert_ingested_url", "respond", "processRecipe">>

\* a handler that takes the UNIQUE violation for any other insert error and
\* goes on
IngestHandlerNoUnique(l, js, auth, body, now) ==
  IF RequireAuth(auth) # 0
  THEN [http |-> Http("ingest", RequireAuth(auth), <<"respond">>), ledger |-> l, jobs |-> js]
  ELSE IF ~IngestRequestSchema(body)
  THEN [http |-> Http("ingest", 400, <<"respond">>), ledger |-> l, jobs |-> js]
  ELSE [http |-> Http("ingest", 202, IngestSteps),
        ledger |-> update_count_for_url(IF l[body].present THEN l
                                        ELSE insert_ingested_url(l, body, now), body),
        jobs |-> Append(js, ProcessRecipe(body))]

\* a handler that runs a recorded URL again when its row is still failed
IngestHandlerRetriesFailed(l, js, auth, body, now) ==
  IF RequireAuth(auth) # 0
  THEN [http |-> Http("ingest", RequireAuth(auth), <<"respond">>), ledger |-> l, jobs |-> js]
  ELSE IF ~IngestRequestSchema(body)
  THEN [http |-> Http("ingest", 400, <<"respond">>), ledger |-> l, jobs |-> js]
  ELSE IF l[body].present /\ ~IsFailedRow(l[body])
  THEN [http |-> Http("ingest", 200, <<"insert_ingested_url", "respond">>),
        ledger |-> l, jobs |-> js]
  ELSE [http |-> Http("ingest", 202, IngestSteps),
        ledger |-> update_count_for_url(IF l[body].present THEN l
                                        ELSE insert_ingested_url(l, body, now), body),
        jobs |-> Append(js, ProcessRecipe(body))]

\* POST /ingest: the answer, and the ledger and the jobs it leaves
IngestHandler(l, js, auth, body, now) ==
  IF RequireAuth(auth) # 0
  THEN [http |-> Http("ingest", RequireAuth(auth), <<"respond">>), ledger |-> l, jobs |-> js]
  ELSE IF ~IngestRequestSchema(body)
  THEN [http |-> Http("ingest", 400, <<"respond">>), ledger |-> l, jobs |-> js]
  ELSE IF l[body].present
  THEN [http |-> Http("ingest", 200, <<"insert_ingested_url", "respond">>),
        ledger |-> l, jobs |-> js]
  ELSE [http |-> Http("ingest", 202, IngestSteps),
        ledger |-> update_count_for_url(insert_ingested_url(l, body, now), body),
        jobs |-> Append(js, ProcessRecipe(body))]

Ingest(auth, body) ==
  LET r == IngestHandler(ledger, jobs, auth, body, Now) IN
  /\ http = NoHttp
  /\ Len(r.jobs) <= MaxJobs
  /\ http' = r.http
  /\ ledger' = r.ledger
  /\ jobs' = r.jobs
  /\ UNCHANGED client

\* the jobs POST /retry starts: the failed URLs when all is "true", and else
\* the posted url ("" when the form has none)
RetryUrls(l, url, all) ==
  IF all = "true" THEN get_failed_urls(l)
  ELSE IF url = None THEN <<>>
  ELSE <<url>>

RECURSIVE CountAll(_, _)
CountAll(l, us) ==
  IF us = <<>> THEN l ELSE CountAll(update_count_for_url(l, Head(us)), Tail(us))

\* a retry that starts its jobs without counting them
RetryUncounted(url, all) ==
  LET us == RetryUrls(ledger, url, all) IN
  /\ http = NoHttp
  /\ Len(jobs) + Len(us) <= MaxJobs
  /\ http' = IF all # "true" /\ url = None
             THEN Http("retry", 400, <<"respond">>)
             ELSE Http("retry", 302, [i \in 1..Len(us) |-> "processRecipe"] \o <<"respond">>)
  /\ ledger' = ledger
  /\ jobs' = jobs \o [i \in 1..Len(us) |-> ProcessRecipe(us[i])]
  /\ UNCHANGED client

\* POST /retry on the admin server
Retry(url, all) ==
  LET us == RetryUrls(ledger, url, all) IN
  /\ http = NoHttp
  /\ Len(jobs) + Len(us) <= MaxJobs
  /\ http' = IF all # "true" /\ url = None
             THEN Http("retry", 400, <<"respond">>)
             ELSE Http("retry", 302, [i \in 1..Len(us) |-> "processRecipe"] \o <<"respond">>)
  /\ ledger' = CountAll(ledger, us)
  /\ jobs' = jobs \o [i \in 1..Len(us) |-> ProcessRecipe(us[i])]
  /\ UNCHANGED client

(***************************************************************************)
(* The specification                                                       *)
(***************************************************************************)
Init ==
  /\ ledger = [u \in URLs |-> NoRow]
  /\ jobs = <<>>
  /\ client = 0
  /\ http = NoHttp

JobStep(j, w) ==
  \/ FetchInstagramPostReturns(j, w)
  \/ TryFetchJsonLdReturns(j, w)
  \/ ParseRecipeFromJsonLdAndCaptionReturns(j, w)
  \/ ParseRecipeReturns(j, w)
  \/ FetchHtmlReturns(j, w)
  \/ ParseRecipeFromJsonLdReturns(j, w)
  \/ DownloadImageReturns(j, w)
  \/ LoginReturns(j)
  \/ CreateRecipeReturns(j, w)
  \/ NotifySuccessReturns(j)
  \/ NotifyNotRecipeReturns(j)
  \/ NotifyErrorReturns(j)

\* every answer the collaborators can give
FullAnswers ==
  [apify |-> ApifyAnswers, pages |-> PageAnswers, responses |-> Responses,
   images |-> ImageAnswers, writes |-> WriteAnswers]

\* the fewest answers with which every action of a job fires: the post has
\* a link, whose page times out or holds a recipe; the model answers with a
\* rejection or a recipe; the image downloads; the write succeeds or is
\* rejected
ThinAnswers ==
  [apify |-> {ApifyAnswer("ok", 200, <<PostLink>>)},
   pages |-> {PageAnswer("timeout", 0, NoHtml), PageAnswer("ok", 200, PageRecipe)},
   responses |-> {r \in Responses : r.api = "ok" /\ r.json /\ ParseResultSchema(r.answer)},
   images |-> {ImageAnswer("ok", 200, "image/jpeg")},
   writes |-> {"created", "unauthorized"}]

Requests ==
  \/ \E auth \in {"none", "bad", "good"}, body \in URLs \cup {BadBody} : Ingest(auth, body)
  \/ \E url \in URLs \cup {None}, all \in {"", "true"} : Retry(url, all)

Idle == \A j \in 1..Len(jobs) : ~InFlight(jobs[j])

\* res.json / res.redirect / res.send: the answer leaves the server
Respond == http # NoHttp /\ http' = NoHttp /\ UNCHANGED <<ledger, jobs, client>>

\* the requests of a client that holds the token and of the admin page,
\* whose forms retry a listed URL, or all of them when the list is not empty
GoodRequests ==
  \/ \E body \in URLs : Ingest("good", body)
  \/ \E url \in FailedSet(ledger) : Retry(url, "")
  \/ FailedSet(ledger) # {} /\ Retry(None, "true")

\* Requests arrive at any time, so that jobs run concurrently: the requests
\* of the token holder and of the admin page, and the reduced answers.
Next ==
  \/ GoodRequests
  \/ Respond
  \/ \E j \in 1..MaxJobs : JobStep(j, ThinAnswers)

Spec == Init /\ [][Next]_vars

\* Requests arrive when no job is in flight, so that jobs run one after the
\* other: every request, well formed or not, and every answer.
NextSeq ==
  \/ Idle /\ Requests
  \/ Respond
  \/ \E j \in 1..MaxJobs : JobStep(j, FullAnswers)

SpecSeq == Init /\ [][NextSeq]_vars

\* The event loop runs a callback that is ready: a response that is written
\* leaves, and a call that some job awaits settles (the collaborator answers
\* or fails; the page fetch is aborted after 10 s at the latest).
Fairness ==
  WF_vars(Respond \/ \E j \in 1..MaxJobs : JobStep(j, FullAnswers))

SpecLive == Init /\ [][NextSeq]_vars /\ Fairness

\* URLs for the classifier: the platform's host with and without www., other
\* hosts, and other hosts whose URL holds the platform's domain in the
\* query string or as a part of a longer host name
QueryUrl == <<"https://", "example.com", "/?u=", "instagram.com">>
LongHostUrl == <<"https://", "my", "instagram.com", ".example.org", "/r">>

RouteUrls == {IgUrl, <<"https://", "instagram.com", "/p/1">>, WebUrl, QueryUrl, LongHostUrl}

\* Jobs run one after the other, each started by POST /retry with a URL of
\* RouteUrls; the collaborators give the reduced answers.
NextRoute ==
  \/ Idle /\ \E url \in RouteUrls : Retry(url, "")
  \/ Respond
  \/ \E j \in 1..MaxJobs : JobStep(j, ThinAnswers)

SpecRoute == Init /\ [][NextRoute]_vars

\* Captions for extractUrlFromCaption.  A URL in the middle of a sentence:
\* text, the URL, punctuation, a space or a line break, and more text.
Pre == {<<>>, <<"Recipe", " ", "here", ":", " ">>}

BareUrl == <<"www.", "example.com", "/soup">>

PlainUrls == {LinkUrl, BareUrl}

Puncts == {<<".">>, <<",">>, <<")">>, <<")", ".">>}

Seps == {<<" ">>, <<"\n">>}

MidSentence(pre, u, p, sep) == pre \o u \o p \o sep \o <<"Enjoy", "!">>

\* URLs of the platform: with and without www., without a scheme, and the
\* page of a profile whose name starts with www.
PlatformUrls ==
  {IgUrl, <<"https://", "instagram.com", "/p/1">>, <<"www.", "instagram.com", "/p/1">>,
   <<"https://", "www.", "instagram.com", "/", "www.", "chef", "/">>}

PlatformOnly(pre, ig) == pre \o ig \o <<" ", "for", " ", "more">>

PlatformThenLink(pre, ig, u) == pre \o ig \o <<" ", "and", " ">> \o u

\* a URL with a line break after its first k tokens
SplitUrl(pre, u, k, rest) == pre \o Take(u, k) \o <<"\n">> \o Drop(u, k) \o rest

Rests == {<<>>, <<" ", "Enjoy">>}

Captions ==
  {MidSentence(pre, u, p, sep) : pre \in Pre, u \in PlainUrls, p \in Puncts, sep \in Seps}
  \cup {PlatformOnly(pre, ig) : pre \in Pre, ig \in PlatformUrls}
  \cup {PlatformThenLink(pre, ig, u) : pre \in Pre, ig \in PlatformUrls, u \in PlainUrls}
  \cup {SplitUrl(pre, u, k, rest) : pre \in Pre, u \in PlainUrls, k \in 1..2, rest \in Rests}

CaptionAnswers ==
  [ThinAnswers EXCEPT
     !.apify = {ApifyAnswer("ok", 200, <<Post(c, "Ann Lee", "ann", "Photo", "img1", "", <<>>)>>) :
                  c \in Captions}]

\* Jobs run one after the other; the scraper gives a post with a caption of
\* Captions.
NextCaption ==
  \/ Idle /\ \E url \in URLs : Ingest("good", url) \/ Retry(url, "")
  \/ Respond
  \/ \E j \in 1..MaxJobs : JobStep(j, CaptionAnswers)

SpecCaption == Init /\ [][NextCaption]_vars

\* Pages for extractJsonLd: one or two JSON-LD blocks, each of them text that
\* is not JSON, the value null, a number or a string, an Article, a Recipe,
\* an object with a @graph, or an array
LdBlocks ==
  {BadBlock, Block(TRUE, JNull), Block(TRUE, JScalar),
   Block(TRUE, JObject("Article", "a")),
   Block(TRUE, JObject("Recipe", "r1")),
   Block(TRUE, JObject("Recipe", "r2")),
   Block(TRUE, JGraph("Recipe", <<JObject("WebSite", "w"), JObject("Recipe", "r3")>>)),
   Block(TRUE, JArray(<<JNull, JScalar, JObject("Recipe", "r4"), JObject("Recipe", "r5")>>))}

LdPages ==
  {Html(<<b>>, "og1") : b \in LdBlocks}
  \cup {Html(<<a, b>>, "og1") : a \in LdBlocks, b \in LdBlocks}

JsonLdAnswers ==
  [ThinAnswers EXCEPT
     !.pages = {PageAnswer("timeout", 0, NoHtml)}
               \cup {PageAnswer("ok", 200, h) : h \in LdPages}]

\* Jobs run one after the other; the linked or ingested page is a page of
\* LdPages.
NextJsonLd ==
  \/ Idle /\ \E url \in URLs : Ingest("good", url) \/ Retry(url, "")
  \/ Respond
  \/ \E j \in 1..MaxJobs : JobStep(j, JsonLdAnswers)

SpecJsonLd == Init /\ [][NextJsonLd]_vars

\* Recipe objects for the schema: Soup, and Soup with one field changed.  A
\* number with a fractional part is written Frac(n), for n + 1/2.
Frac(x) == [t |-> "num", s |-> "frac", n |-> x]

RecipeDocs ==
  {Soup, Nameless,
   [Soup EXCEPT !.name = Some(Str(""))],
   [Soup EXCEPT !.name = Some(Num(1))],
   [Soup EXCEPT !.prepTime = Some(Num(0))],
   [Soup EXCEPT !.prepTime = Some(Num(0 - 5))],
   [Soup EXCEPT !.prepTime = Some(Str("PT20M"))],
   [Soup EXCEPT !.cookTime = Some(Frac(1))],
   [Soup EXCEPT !.cookTime = Some(Null)],
   [Soup EXCEPT !.ingredients = Some(<<Ingredient(Absent, Some(Str("1.5 lbs")), Absent)>>)],
   [Soup EXCEPT !.ingredients = Some(<<>>)],
   [Soup EXCEPT !.steps = Some(<<Str("Boil."), Str("")>>)],
   [Soup EXCEPT !.steps = Some(<<Str("Boil."), Num(2)>>)],
   [Soup EXCEPT !.steps = Absent]}

RecipeAnswers ==
  [ThinAnswers EXCEPT
     !.responses =
        {Response("ok", "text", TRUE, Answer("false", Some(Str("no ingredients")), Absent, Absent))}
        \cup {Response("ok", "text", TRUE, Answer("true", Absent, Some(Num(10)), Some(r))) :
                r \in RecipeDocs}]

\* Jobs run one after the other; the model answers with a document whose
\* recipe is one of RecipeDocs.
NextRecipe ==
  \/ Idle /\ \E url \in URLs : Ingest("good", url) \/ Retry(url, "")
  \/ Respond
  \/ \E j \in 1..MaxJobs : JobStep(j, RecipeAnswers)

SpecRecipe == Init /\ [][NextRecipe]_vars

\* URLs for the source name: a post, a page of a host with one leading
\* "www.", of a host with two, and of a host with none
WwwWwwUrl == <<"https://", "www.", "www.", "example.com", "/r">>

SourceUrls == {IgUrl, WebUrl, WwwWwwUrl, LinkUrl}

\* the author has a display name, or the handle alone
SourceAnswers ==
  [ThinAnswers EXCEPT
     !.apify = {ApifyAnswer("ok", 200, <<PostLink>>), ApifyAnswer("ok", 200, <<PostBare>>)}]

\* Jobs run one after the other, each started for one of SourceUrls.
NextSource ==
  \/ Idle /\ \E url \in SourceUrls : Retry(url, "")
  \/ Respond
  \/ \E j \in 1..MaxJobs : JobStep(j, SourceAnswers)

SpecSource == Init /\ [][NextSource]_vars

\* Posts for the cover image: each type with and without its images, its
\* thumbnail and its display image ("" is a field the scraper left out)
CoverPosts ==
  {Post(CapLink, "Ann Lee", "ann", type, displayUrl, thumbnailUrl, images) :
     type \in {"Photo", "Sidecar", "Video", "Reel"},
     displayUrl \in {"", "display"},
     thumbnailUrl \in {"", "thumb"},
     images \in {<<>>, <<"first", "second">>, <<"", "second">>}}

CoverAnswers ==
  [ThinAnswers EXCEPT !.apify = {ApifyAnswer("ok", 200, <<p>>) : p \in CoverPosts}]

\* Jobs run one after the other; the post is one of CoverPosts.
NextCover ==
  \/ Idle /\ \E url \in URLs : Ingest("good", url) \/ Retry(url, "")
  \/ Respond
  \/ \E j \in 1..MaxJobs : JobStep(j, CoverAnswers)

SpecCover == Init /\ [][NextCover]_vars

\* URLs for the scheme: every prefix the pattern takes, in lower and in
\* upper case, before the same host and path, and a scheme before "www."
SchemeUrls ==
  {<<prefix, "example.com", "/soup">> : prefix \in UrlPrefixes}
  \cup {<<"https://", "www.", "example.com", "/soup">>}

SchemeCaptions == {pre \o u \o rest : pre \in Pre, u \in SchemeUrls, rest \in Rests}

SchemeAnswers ==
  [ThinAnswers EXCEPT
     !.apify = {ApifyAnswer("ok", 200, <<Post(c, "Ann Lee", "ann", "Photo", "img1", "", <<>>)>>) :
                  c \in SchemeCaptions}]

\* Jobs run one after the other; the caption holds one of SchemeUrls.
NextScheme ==
  \/ Idle /\ \E url \in URLs : Ingest("good", url) \/ Retry(url, "")
  \/ Respond
  \/ \E j \in 1..MaxJobs : JobStep(j, SchemeAnswers)

SpecScheme == Init /\ [][NextScheme]_vars

\* Answers of the model that differ in their confidence alone (in tenths:
\* 3 is 0.3, below the 0.7 of the prompt; 7 is 0.7), and a rejection
Confidences == {3, 7, 10}

ConfidenceAnswers ==
  [ThinAnswers EXCEPT
     !.responses =
        {Response("ok", "text", TRUE, Answer("false", Some(Str("no ingredients")), Absent, Absent))}
        \cup {Response("ok", "text", TRUE, Answer("true", Absent, Some(Num(c)), Some(Soup))) :
                c \in Confidences},
     !.writes = {"created"}]

\* no two jobs are in flight
AtMostOneInFlight ==
  \A i \in 1..Len(jobs) : \A k \in 1..Len(jobs) :
    (InFlight(jobs[i]) /\ InFlight(jobs[k])) => i = k

\* The claim compares two runs: a request arrives while at most one job is
\* in flight, so that two runs of one URL are in flight together, each with
\* its own answer of the model.
NextConfidence ==
  \/ AtMostOneInFlight /\ GoodRequests
  \/ Respond
  \/ \E j \in 1..MaxJobs : JobStep(j, ConfidenceAnswers)

SpecConfidence == Init /\ [][NextConfidence]_vars

(***************************************************************************)
(* The claims                                                              *)
(***************************************************************************)
Parsers == {"parseRecipe", "parseRecipeFromJsonLdAndCaption", "parseRecipeFromJsonLd"}

Count(job, name) == Cardinality({k \in 1..Len(job.log) : job.log[k] = name})

Called(job, name) == Count(job, name) > 0

\* the job has read its post and is past the enrichment
PostRead(job) ==
  IsInstagram(job.url) /\ job.post # NoPost /\ job.pc # "tryFetchJsonLd"

\* C1: on the social route, for every fetched post: when the caption yields
\* a link and the fetch and parse of the link gave structured recipe data,
\* the job calls parseRecipeFromJsonLdAndCaption and never parseRecipe, and
\* an extracted recipe has the link for its sourceUrl; in every other case
\* the job calls parseRecipe and never parseRecipeFromJsonLdAndCaption, and
\* an extracted recipe has the ingested URL for its sourceUrl.
C1_ParserAndSourceUrl ==
  \A j \in 1..Len(jobs) :
    LET job == jobs[j]
        link == ExtractUrlFromCaption(job.post.caption)
    IN PostRead(job) =>
         IF link # None /\ job.jsonLd # JNull
         THEN /\ Called(job, "parseRecipeFromJsonLdAndCaption")
              /\ ~Called(job, "parseRecipe")
              /\ job.extraction = "ok" => job.sourceUrl = link
         ELSE /\ Called(job, "parseRecipe")
              /\ ~Called(job, "parseRecipeFromJsonLdAndCaption")
              /\ job.extraction = "ok" => job.sourceUrl = job.url

C1_Witness ==
  \E j \in 1..Len(jobs) :
    /\ PostRead(jobs[j])
    /\ jobs[j].jsonLd # JNull
    /\ Called(jobs[j], "parseRecipeFromJsonLdAndCaption")
    /\ jobs[j].extraction = "ok"
    /\ jobs[j].sourceUrl = LinkUrl

\* what a post without a link gives, from the post, the model's answer and
\* the image host's answer
CaptionOnly(job) ==
  [recipe |-> RecipeParsed(job.response.answer.recipe[1]),
   sourceUrl |-> job.url,
   sourceName |-> <<IF job.post.ownerFullName # "" THEN job.post.ownerFullName
                    ELSE job.post.ownerUsername>>,
   photo |-> IF job.image.net = "ok" /\ job.image.status \in 200..299
                /\ job.image.contentType \in {"image/jpeg", "image/png"}
             THEN "bytes" ELSE NoPhoto]

\* C2: a job whose link enrichment failed (the fetch of the link failed,
\* timed out or answered outside 2xx, or the extraction threw) goes on as a
\* job whose caption has no link does: its next call is parseRecipe, it
\* never calls parseRecipeFromJsonLdAndCaption, the failure is not the
\* error of the job, and what it extracts is what the post, the model's
\* answer and the image alone give.
C2_EnrichmentFailureIsNoLink ==
  \A j \in 1..Len(jobs) :
    LET job == jobs[j]
        link == ExtractUrlFromCaption(job.post.caption)
        enriched == IF link = None THEN 0 ELSE 1
    IN (PostRead(job) /\ (link = None \/ TryFetchJsonLd(job.page).failed)) =>
         /\ job.log[3 + enriched] = "parseRecipe"
         /\ ~Called(job, "parseRecipeFromJsonLdAndCaption")
         /\ Count(job, "tryFetchJsonLd") = enriched
         /\ job.failed # "tryFetchJsonLd"
         /\ job.pc = "notifyError" => job.failed \in {"parseRecipe", "login", "createRecipe",
                                                      "notifySuccess", "notifyNotRecipe"}
         /\ job.extraction = "ok" =>
              [recipe |-> job.recipe, sourceUrl |-> job.sourceUrl,
               sourceName |-> job.sourceName, photo |-> job.photo] = CaptionOnly(job)

C2_Witness ==
  \E j \in 1..Len(jobs) :
    /\ PostRead(jobs[j])
    /\ ExtractUrlFromCaption(jobs[j].post.caption) # None
    /\ jobs[j].page # NoPage
    /\ TryFetchJsonLd(jobs[j].page).failed
    /\ jobs[j].extraction = "ok"
    /\ jobs[j].photo # NoPhoto

\* the HTML has a JSON-LD block yielding a candidate of @type "Recipe"
HasRecipeCandidate(html) ==
  \E i \in 1..Len(html.blocks) :
    /\ html.blocks[i].valid
    /\ \E k \in 1..Len(Items(html.blocks[i].data)) :
         IsRecipeItem(Items(html.blocks[i].data)[k])

\* C3: on the direct route, when the fetched HTML has no JSON-LD block that
\* yields a candidate of @type Recipe, the job's outcome is NotRecipe and
\* the job makes no call of the model, no image download and no write.
C3_NoCandidateIsNotRecipe ==
  \A j \in 1..Len(jobs) :
    LET job == jobs[j] IN
    (/\ ~IsInstagram(job.url)
     /\ job.page.net = "ok" /\ StatusOk(job.page.status)
     /\ ~HasRecipeCandidate(job.page.body)) =>
      /\ job.extraction = "notRecipe"
      /\ \A name \in Parsers \cup {"downloadImage", "login", "createRecipe"} :
           ~Called(job, name)

\* the document of the model's answer does not pass the parser
ResponseRejected(r) ==
  r.api # "ok" \/ r.type # "text" \/ ~r.json \/ ~ParseResultSchema(r.answer)

\* the mandatory step that failed in the job, "" when none did
MandatoryFailure(job) ==
  IF IsInstagram(job.url) /\ Called(job, "fetchInstagramPost")
     /\ job.pc # "fetchInstagramPost" /\ job.post = NoPost
  THEN "fetchInstagramPost"
  ELSE IF ~IsInstagram(job.url) /\ job.page # NoPage
          /\ (job.page.net # "ok" \/ ~StatusOk(job.page.status))
  THEN "fetchHtml"
  ELSE IF job.response # NoResponse /\ ResponseRejected(job.response)
  THEN CHOOSE name \in Parsers : Called(job, name)
  ELSE ""

\* C4: when a mandatory step fails (the fetch of the post, the fetch of the
\* page on the direct route, or the call of the model, a response the
\* schema rejects included), the step was called once in the job, no call
\* of the model was made besides it, the job's next and last call is
\* notifyError, the job made no write, and it ends when notifyError settles.
C4_MandatoryFailureEndsInError ==
  [][/\ \A j \in 1..Len(jobs') :
          LET job == jobs'[j]
              step == MandatoryFailure(job)
              n == Len(job.log)
          IN step # "" =>
               /\ job.pc = "notifyError"
               /\ job.log[n] = "notifyError"
               /\ job.log[n - 1] = step
               /\ Count(job, step) = 1
               /\ Count(job, "notifyError") = 1
               /\ step \in Parsers =>
                    Cardinality({k \in 1..n : job.log[k] \in Parsers}) = 1
               /\ ~Called(job, "login") /\ ~Called(job, "createRecipe")
               /\ ~Called(job, "downloadImage")
     /\ \A j \in 1..Len(jobs) :
          (MandatoryFailure(jobs[j]) # "" /\ jobs'[j] # jobs[j]) =>
            jobs'[j].pc = "done" /\ jobs'[j].outcome = "error"]_vars

C4_Witness ==
  \E j \in 1..Len(jobs) :
    /\ jobs[j].response.api = "ok"
    /\ jobs[j].response.json
    /\ ~ParseResultSchema(jobs[j].response.answer)
    /\ jobs[j].pc = "notifyError"

\* C5: every job that calls createRecipe carries the recipe of a document of
\* the model that passed the schema with is_recipe true: the job made one
\* call of the model, whose answer was text that parses as JSON, the
\* document has is_recipe true, a number for its confidence and a recipe
\* the RecipeSchema accepts, and the job's recipe is that recipe.
C5_WriteCarriesValidatedRecipe ==
  \A j \in 1..Len(jobs) :
    LET job == jobs[j]
        r == job.response
    IN (Called(job, "login") \/ Called(job, "createRecipe")) =>
         /\ Cardinality({k \in 1..Len(job.log) : job.log[k] \in Parsers}) = 1
         /\ r.api = "ok" /\ r.type = "text" /\ r.json
         /\ r.answer.is_recipe = "true"
         /\ IsNumber(r.answer.confidence)
         /\ Len(r.answer.recipe) = 1
         /\ RecipeSchema(r.answer.recipe[1])
         /\ job.recipe = RecipeParsed(r.answer.recipe[1])
         /\ job.extraction = "ok"

C5_Witness ==
  \E j \in 1..Len(jobs) :
    /\ jobs[j].pc = "createRecipe"
    /\ jobs[j].recipe.name = Some(Str("Soup"))
    /\ ~jobs[j].recipe.extra

\* C6: when the model's document passes the schema with is_recipe false,
\* the job's outcome is NotRecipe with the model's reason, the job calls no
\* other parser, downloads no image and makes no write, and the one
\* notification it sends is notifyNotRecipe, never notifyError.
C6_RejectionIsNotRecipe ==
  \A j \in 1..Len(jobs) :
    LET job == jobs[j]
        r == job.response
    IN (r.api = "ok" /\ r.type = "text" /\ r.json /\ r.answer.is_recipe = "false"
        /\ IsString(r.answer.reason)) =>
         /\ job.extraction = "notRecipe"
         /\ job.reason = r.answer.reason[1].s
         /\ Cardinality({k \in 1..Len(job.log) : job.log[k] \in Parsers}) = 1
         /\ ~Called(job, "downloadImage")
         /\ ~Called(job, "login") /\ ~Called(job, "createRecipe")
         /\ Called(job, "notifyNotRecipe")
         /\ ~Called(job, "notifySuccess")
         /\ ~Called(job, "notifyError")

\* C7: POST /ingest with the token, for a URL that has a row in the ledger,
\* answers with success (200), starts no job and leaves the ledger as it
\* is; for a URL without a row it starts one job, for that URL.
C7_IngestOncePerUrl ==
  [][\A u \in URLs :
       Ingest("good", u) =>
         IF ledger[u].present
         THEN /\ http'.status = 200
              /\ jobs' = jobs
              /\ ledger' = ledger
         ELSE /\ Len(jobs') = Len(jobs) + 1
              /\ SubSeq(jobs', 1, Len(jobs)) = jobs
              /\ jobs'[Len(jobs')].url = u
              /\ InFlight(jobs'[Len(jobs')])
              /\ ledger'[u].present
              /\ \A v \in URLs \ {u} : ledger'[v] = ledger[v]]_vars

C7_Witness ==
  /\ http.route = "ingest"
  /\ http.status = 200
  /\ Len(jobs) = 1
  /\ InFlight(jobs[1])

\* C8: under every interleaving of POST /ingest and POST /retry, no two
\* jobs for the same URL are in flight at the same time.
C8_OneJobPerUrlInFlight ==
  \A i \in 1..Len(jobs) : \A j \in 1..Len(jobs) :
    (i # j /\ InFlight(jobs[i]) /\ InFlight(jobs[j])) => jobs[i].url # jobs[j].url

Notifications == {"notifySuccess", "notifyNotRecipe", "notifyError"}

C10_CounterFirstImportedLast ==
  [][LET started == (Len(jobs) + 1)..Len(jobs')
         Started(u) == Cardinality({j \in started : jobs'[j].url = u})
     IN /\ \A j \in started :
             /\ Len(jobs'[j].log) = 2
             /\ jobs'[j].log[1] = "update_count_for_url"
             /\ jobs'[j].log[2] \in {"fetchInstagramPost", "fetchHtml"}
        /\ \A u \in URLs :
             ledger'[u].present =>
               ledger'[u].attempts_count = ledger[u].attempts_count + Started(u)
        /\ \A u \in URLs :
             ledger'[u].imported_at # ledger[u].imported_at =>
               \E j \in 1..Len(jobs) :
                 /\ jobs[j].url = u
                 /\ jobs[j].pc = "notifySuccess"
                 /\ jobs[j].extraction = "ok"
                 /\ jobs[j].created # ""
                 /\ Called(jobs[j], "createRecipe")
                 /\ jobs'[j].outcome = "created"
        /\ \A j \in 1..Len(jobs) :
             (InFlight(jobs[j]) /\ jobs'[j].outcome \in {"notRecipe", "error"}) =>
               \A u \in URLs : ledger'[u].imported_at = ledger[u].imported_at]_vars

C10_Witness ==
  \E u \in URLs :
    /\ ledger[u].imported_at # 0
    /\ ledger[u].attempts_count = 2

\* C11: a failure of a notification is never escalated: when notifySuccess
\* settles, with success or with failure, imported_at of the URL is written
\* and the job ends as created; when notifyNotRecipe settles, the job ends
\* as notRecipe; in neither case does the job call notifyError.
C11_NotificationFailureNotEscalated ==
  [][\A j \in 1..Len(jobs) :
       /\ (jobs[j].pc = "notifySuccess" /\ jobs'[j] # jobs[j]) =>
            /\ jobs'[j].pc = "done" /\ jobs'[j].outcome = "created"
            /\ ledger[jobs[j].url].present => ledger'[jobs[j].url].imported_at # 0
       /\ (jobs[j].pc = "notifyNotRecipe" /\ jobs'[j] # jobs[j]) =>
            jobs'[j].pc = "done" /\ jobs'[j].outcome = "notRecipe"
       /\ (jobs[j].pc \in {"notifySuccess", "notifyNotRecipe"}) =>
            ~Called(jobs'[j], "notifyError")]_vars

\* C12: when a write is rejected for authentication, the session is reset,
\* a login follows and the write is retried once: a job whose createRecipe
\* failed for authentication has called client.createRecipe twice, with a
\* login between the two calls, and no job calls it more than twice.
C12_AuthFailureRetriedOnce ==
  \A j \in 1..Len(jobs) :
    LET job == jobs[j]
        writes == {k \in 1..Len(job.log) : job.log[k] = "createRecipe"}
    IN /\ Cardinality(writes) <= 2
       /\ (job.failed = "createRecipe" /\ job.err = "unauthorized") =>
            /\ Cardinality(writes) = 2
            /\ \E a \in writes : \E b \in writes :
                 \E k \in 1..Len(job.log) : a < k /\ k < b /\ job.log[k] = "login"

\* C13: under every interleaving of the jobs that reach the write while no
\* session exists, at most one login is performed and at most one session
\* is created: of the jobs in flight at most one awaits a login or holds a
\* session that its own login created, and a stored session is not replaced.
C13_OneLoginOneSession ==
  [][/\ Cardinality({j \in 1..Len(jobs') :
                       jobs'[j].pc = "login" \/ jobs'[j].session # 0}) <= 1
     /\ client # 0 => client' = client]_vars

Outcomes == {"created", "notRecipe", "error"}

\* C14: every started job ends: whenever jobs are in flight, a state follows
\* in which none is, and a job ends with one of the outcomes created,
\* notRecipe and error; a job of the direct route whose page fetch got no
\* response (the 10 s timeout fired) is then at notifyError, and ends in error.
C14_EveryJobEnds ==
  /\ ~Idle ~> Idle
  /\ [][\A j \in 1..Len(jobs) :
          LET timedOut == ~IsInstagram(jobs[j].url) /\ jobs[j].page.net = "timeout"
          IN /\ timedOut => jobs[j].pc = "notifyError"
             /\ (InFlight(jobs[j]) /\ ~InFlight(jobs'[j])) =>
                  /\ jobs'[j].outcome \in Outcomes
                  /\ timedOut => jobs'[j].outcome = "error"]_vars

C14_Witness ==
  /\ Len(jobs) = 2
  /\ jobs[1].outcome = "error"
  /\ jobs[2].failed = "fetchHtml"
  /\ jobs[2].err = "TimeoutError"

\* the URL's host is the platform's domain, with or without www.
HostIsPlatform(url) == StripWww(Hostname(url)) = <<"instagram.com">>

\* C15: a job takes the social route exactly when the host of its URL is the
\* platform's domain; a URL of another host that holds the platform's
\* domain in its path, its query string or inside a longer host name takes
\* the direct route.
C15_RouteByHost ==
  \A j \in 1..Len(jobs) :
    InFlight(jobs[j]) =>
      /\ jobs[j].log[2] = "fetchInstagramPost" <=> HostIsPlatform(jobs[j].url)
      /\ jobs[j].log[2] = "fetchHtml" <=> ~HostIsPlatform(jobs[j].url)

\* the URL as the extractor returns it: a URL without a scheme gets https://
WithScheme(u) == IF u[1] \in {"http://", "https://"} THEN u ELSE <<"https://">> \o u

\* C16: for every caption that holds a URL of another site in the middle of
\* a sentence, followed by punctuation of the set . , ) > ] and by more text
\* after a space or a line break, the extractor returns that URL, without
\* the punctuation and without the text around it.
C16_MidSentenceUrl ==
  \A j \in 1..Len(jobs) :
    \A pre \in Pre : \A u \in PlainUrls : \A p \in Puncts : \A sep \in Seps :
      jobs[j].post.caption = MidSentence(pre, u, p, sep) =>
        jobs[j].linkedUrl = WithScheme(u)

\* C17: for every caption whose only URL is a URL of the platform (with or
\* without www., whatever its path holds) the extractor returns none; when
\* a URL of another site follows in the caption, it returns that URL.
C17_PlatformUrlSkipped ==
  \A j \in 1..Len(jobs) :
    \A pre \in Pre : \A ig \in PlatformUrls :
      /\ jobs[j].post.caption = PlatformOnly(pre, ig) => jobs[j].linkedUrl = None
      /\ \A u \in PlainUrls :
           jobs[j].post.caption = PlatformThenLink(pre, ig, u) =>
             jobs[j].linkedUrl = WithScheme(u)

\* C18: a line break inside a URL is removed before the match: for a caption
\* that holds prefix, line break, suffix (the suffix starting with a
\* character that is not white space) the extractor returns the prefix
\* followed by the suffix.
C18_LineBreakInsideUrl ==
  \A j \in 1..Len(jobs) :
    \A pre \in Pre : \A u \in PlainUrls : \A k \in 1..2 : \A rest \in Rests :
      jobs[j].post.caption = SplitUrl(pre, u, k, rest) =>
        jobs[j].linkedUrl = WithScheme(Take(u, k) \o Drop(u, k))

C18_Witness ==
  \E j \in 1..Len(jobs) :
    /\ jobs[j].post.caption =
         <<"Recipe", " ", "here", ":", " ", "https://", "example.com", "\n", "/soup",
           " ", "Enjoy">>
    /\ jobs[j].linkedUrl = LinkUrl
    /\ jobs[j].pc = "tryFetchJsonLd"

\* the candidates of a block: the elements of a top-level array, the
\* elements of the @graph array of an object that has one, and else the
\* single value; a block that is not JSON has none
Candidates(b) ==
  IF ~b.valid THEN <<>>
  ELSE IF b.data.kind = "array" THEN b.data.items
  ELSE IF b.data.kind = "object" /\ b.data.hasGraph THEN b.data.items
  ELSE <<b.data>>

RECURSIVE AllCandidates(_)
AllCandidates(blocks) ==
  IF blocks = <<>> THEN <<>>
  ELSE Candidates(Head(blocks)) \o AllCandidates(Tail(blocks))

\* the first candidate, in document order, whose @type is "Recipe"
FirstRecipe(blocks) ==
  LET c == AllCandidates(blocks)
      hits == {i \in 1..Len(c) : c[i].kind = "object" /\ c[i].type = "Recipe"}
  IN IF hits = {} THEN JNull ELSE c[CHOOSE h \in hits : \A g \in hits : h <= g]

\* the job has read a page with status 2xx, on either route
PageRead(job) == job.page.net = "ok" /\ job.page.status \in 200..299

\* extractJsonLd threw in the job
ExtractThrew(job) ==
  job.failed = "extractJsonLd" \/ (IsInstagram(job.url) /\ job.enrichFailed)

\* C19: extractJsonLd scans the blocks in document order and returns the
\* first candidate whose @type is "Recipe"; it returns none exactly when no
\* block yields such a candidate.
C19_FirstRecipeCandidate ==
  \A j \in 1..Len(jobs) :
    PageRead(jobs[j]) =>
      /\ ~ExtractThrew(jobs[j])
      /\ jobs[j].jsonLd = FirstRecipe(jobs[j].page.body.blocks)
      /\ jobs[j].jsonLd = JNull <=>
           \A i \in 1..Len(jobs[j].page.body.blocks) :
             \A k \in 1..Len(Candidates(jobs[j].page.body.blocks[i])) :
               Candidates(jobs[j].page.body.blocks[i])[k].type # "Recipe"

\* a block that is not JSON, or whose value is null, a number or a string
IsBadBlock(b) == ~b.valid \/ b.data.kind \in {"null", "scalar"}

\* C20: extractJsonLd never aborts on a bad block: on a page with a block
\* that is not JSON or whose value is null, a number or a string, no
\* exception is raised, the block is skipped, and the Recipe of a later
\* block is returned.
C20_BadBlockSkipped ==
  \A j \in 1..Len(jobs) :
    LET blocks == jobs[j].page.body.blocks
        good == SelectSeq(blocks, LAMBDA b : ~IsBadBlock(b))
    IN (PageRead(jobs[j]) /\ \E i \in 1..Len(blocks) : IsBadBlock(blocks[i])) =>
         /\ ~ExtractThrew(jobs[j])
         /\ jobs[j].failed # "fetchHtml"
         /\ jobs[j].jsonLd = FirstRecipe(good)

\* the model's document passed the parser with is_recipe true
SynthesisOk(job) ==
  /\ job.response # NoResponse
  /\ ~ResponseRejected(job.response)
  /\ job.response.answer.is_recipe = "true"

\* the image request gave an image
ImageGood(a) ==
  a.net = "ok" /\ a.status \in 200..299 /\ a.contentType \in {"image/jpeg", "image/png"}

\* C21: downloadImage never raises: a network failure, a status outside 2xx
\* and a content type that is not an image all give no photo, and a job whose
\* synthesis succeeded is extracted with the same recipe, sourceUrl and
\* sourceName whether the download succeeds, fails or is skipped.
C21_DownloadNeverBlocks ==
  \A j \in 1..Len(jobs) :
    LET job == jobs[j] IN
    SynthesisOk(job) =>
      /\ job.failed # "downloadImage"
      /\ job.pc # "downloadImage" =>
           /\ job.extraction = "ok"
           /\ job.pc \in {"login", "createRecipe", "notifySuccess", "notifyError"}
           /\ job.recipe = RecipeParsed(job.response.answer.recipe[1])
           /\ job.sourceUrl = IF Called(job, "parseRecipeFromJsonLdAndCaption")
                              THEN job.linkedUrl ELSE job.url
           /\ job.sourceName = IF IsInstagram(job.url)
                               THEN <<IF job.post.ownerFullName # ""
                                      THEN job.post.ownerFullName
                                      ELSE job.post.ownerUsername>>
                               ELSE StripWww(Hostname(job.url))
           /\ job.photo = IF ImageGood(job.image) THEN "bytes" ELSE NoPhoto
           /\ Called(job, "downloadImage") <=> job.image # NoImage

C21_Witness ==
  /\ \E j \in 1..Len(jobs) :
       /\ SynthesisOk(jobs[j])
       /\ jobs[j].image.net = "ok" /\ jobs[j].image.contentType = "text/html"
       /\ jobs[j].pc = "createRecipe"
       /\ jobs[j].photo = NoPhoto
  /\ \E j \in 1..Len(jobs) : jobs[j].pc = "done" /\ jobs[j].outcome = "created"

\* text that is not empty; an integer that is not negative
NonEmptyText(v) == v.t = "str" /\ v.s # ""

NonNegativeInteger(v) == v.t = "num" /\ v.s = "" /\ v.n >= 0

\* the field constraints of the data model
FieldConstraints(r) ==
  /\ Len(r.name) = 1 /\ NonEmptyText(r.name[1])
  /\ r.prepTime = Absent \/ (Len(r.prepTime) = 1 /\ NonNegativeInteger(r.prepTime[1]))
  /\ r.cookTime = Absent \/ (Len(r.cookTime) = 1 /\ NonNegativeInteger(r.cookTime[1]))
  /\ Len(r.ingredients) = 1
  /\ \A k \in 1..Len(r.ingredients[1]) :
       Len(r.ingredients[1][k].name) = 1 /\ r.ingredients[1][k].name[1].t = "str"
  /\ Len(r.steps) = 1
  /\ \A k \in 1..Len(r.steps[1]) : NonEmptyText(r.steps[1][k])

\* C22: the recipe of every Extracted outcome has a name that is text and
\* not empty, a prepTime and a cookTime that are absent or integers that are
\* not negative, a name for every ingredient and steps that are text and not
\* empty; a document of the model whose recipe breaks one of these is
\* rejected as an error of the synthesis.
C22_RecipeFieldConstraints ==
  \A j \in 1..Len(jobs) :
    LET job == jobs[j]
        r == job.response
    IN /\ job.extraction = "ok" => FieldConstraints(job.recipe)
       /\ (/\ r.api = "ok" /\ r.type = "text" /\ r.json
           /\ r.answer.is_recipe = "true"
           /\ Len(r.answer.recipe) = 1
           /\ ~FieldConstraints(r.answer.recipe[1])) =>
            /\ job.pc = "notifyError"
            /\ job.failed \in Parsers

\* C23: the recipe of every Extracted outcome, written as JSON and read
\* again, passes the RecipeSchema, and what the schema gives equals the
\* recipe field for field.
C23_RecipeRoundTrip ==
  \A j \in 1..Len(jobs) :
    jobs[j].extraction = "ok" =>
      LET back == JsonParse(Stringify(jobs[j].recipe))
      IN /\ RecipeSchema(back)
         /\ \A f \in {"name", "servings", "prepTime", "cookTime", "ingredients",
                      "steps", "notes", "extra"} :
              RecipeParsed(back)[f] = jobs[j].recipe[f]

C23_Witness ==
  \E j \in 1..Len(jobs) :
    /\ jobs[j].extraction = "ok"
    /\ jobs[j].response.answer.recipe[1].extra
    /\ jobs[j].recipe.cookTime = Absent
    /\ jobs[j].recipe.ingredients = Some(<<Ingredient(Some(Str("beef")), Some(Str("1.5 lbs")), Absent)>>)
    /\ Len(Stringify(jobs[j].recipe)) = 5

\* C24: a social URL whose post was fetched, whose caption has no link and
\* for which parseRecipe reports no recipe gives NotRecipe with the reason
\* of that call of the model, no other parser is called, and the URL
\* reported with the outcome is the ingested URL.
C24_CaptionOnlyNotRecipe ==
  \A j \in 1..Len(jobs) :
    LET job == jobs[j]
        r == job.response
    IN (/\ IsInstagram(job.url)
        /\ job.post # NoPost
        /\ ExtractUrlFromCaption(job.post.caption) = None
        /\ ~ResponseRejected(r)
        /\ r.answer.is_recipe = "false") =>
         /\ job.extraction = "notRecipe"
         /\ job.reason = r.answer.reason[1].s
         /\ {name \in Parsers : Called(job, name)} = {"parseRecipe"}
         /\ ~Called(job, "tryFetchJsonLd")
         /\ Called(job, "notifyNotRecipe")
         /\ NotifyNotRecipeArgs(job) = [message |-> r.answer.reason[1].s, click |-> job.url]
         /\ job.sourceUrl = job.url

C24_Witness ==
  \E j \in 1..Len(jobs) :
    /\ jobs[j].url = IgUrl
    /\ jobs[j].post = PostNoLink
    /\ jobs[j].pc = "notifyNotRecipe"
    /\ jobs[j].reason = "no ingredients"

\* a host name with one leading "www." removed
OneWwwRemoved(h) == IF Len(h) > 0 /\ h[1] = "www." THEN SubSeq(h, 2, Len(h)) ELSE h

\* C25: on the direct route every Extracted outcome has the ingested URL
\* for its sourceUrl and, for its sourceName, the URL's host name with one
\* leading "www." removed; on the social route every Extracted outcome has
\* the author's display name for its sourceName, or the handle when the
\* display name is empty.
C25_SourceName ==
  \A j \in 1..Len(jobs) :
    LET job == jobs[j] IN
    job.extraction = "ok" =>
      IF Called(job, "fetchHtml")
      THEN /\ job.sourceUrl = job.url
           /\ job.sourceName = OneWwwRemoved(Hostname(job.url))
      ELSE /\ Called(job, "fetchInstagramPost")
           /\ job.sourceName = <<IF job.post.ownerFullName # "" THEN job.post.ownerFullName
                                 ELSE job.post.ownerUsername>>

C25_Witness ==
  /\ Len(jobs) = 2
  /\ jobs[1].url = IgUrl
  /\ jobs[1].outcome = "created"
  /\ jobs[2].url = WwwWwwUrl
  /\ jobs[2].extraction = "ok"
  /\ jobs[2].sourceName = <<"www.", "example.com">>

\* C26: the record the job writes to the list service has the outcome's
\* sourceUrl, a source name equal to the outcome's sourceName, and the
\* ingredients and the steps of the validated recipe in the same order.
C26_WriteReceivesOutcome ==
  \A j \in 1..Len(jobs) :
    LET job == jobs[j] IN
    Called(job, "createRecipe") =>
      LET written == ClientCreateRecipe(CreateRecipeArgs(job))
          recipe == RecipeParsed(job.response.answer.recipe[1])
      IN /\ written.sourceUrl = job.sourceUrl
         /\ written.sourceName = job.sourceName
         /\ Len(written.ingredients) = Len(recipe.ingredients[1])
         /\ \A k \in 1..Len(written.ingredients) :
              written.ingredients[k] = recipe.ingredients[1][k]
         /\ written.preparationSteps = recipe.steps[1]

\* the job has selected the cover image of its post
CoverSelected(job) == Called(job, "fetchInstagramPost") /\ SynthesisOk(job)

\* the call the job made right after the call of the model
AfterSynthesis(job) ==
  LET k == CHOOSE i \in 1..Len(job.log) : job.log[i] \in Parsers
  IN job.log[k + 1]

\* C28: the cover image of a fetched post is the first image of a carousel,
\* the thumbnail of a video and the display image of every other post; the
\* selection is made from the post alone, with no call in between.
C28_CoverImageSelection ==
  \A j \in 1..Len(jobs) :
    LET job == jobs[j]
        post == job.post
    IN CoverSelected(job) =>
         /\ job.imageUrl =
              IF post.type = "Sidecar"
              THEN (IF Len(post.images) > 0 THEN post.images[1] ELSE "")
              ELSE IF post.type = "Video" THEN post.thumbnailUrl
              ELSE post.displayUrl
         /\ AfterSynthesis(job) \in
              IF job.imageUrl # "" THEN {"downloadImage"} ELSE {"login", "createRecipe"}

\* C28, amended: the cover image of a fetched post is the first image of a
\* carousel that has images, the thumbnail of a video that has one, and the
\* display image of every other post, a carousel without images and a video
\* without a thumbnail included; the selection is made from the post alone,
\* with no call in between.
C28_CoverImageWithFallback ==
  \A j \in 1..Len(jobs) :
    LET job == jobs[j]
        post == job.post
    IN CoverSelected(job) =>
         /\ (post.type = "Sidecar" /\ Len(post.images) > 0) =>
              job.imageUrl = post.images[1]
         /\ (post.type = "Video" /\ post.thumbnailUrl # "") =>
              job.imageUrl = post.thumbnailUrl
         /\ (/\ ~(post.type = "Sidecar" /\ Len(post.images) > 0)
             /\ ~(post.type = "Video" /\ post.thumbnailUrl # "")) =>
              job.imageUrl = post.displayUrl
         /\ job.imageUrl # "" => AfterSynthesis(job) = "downloadImage"
         /\ job.imageUrl = "" => AfterSynthesis(job) \in {"login", "createRecipe"}

C28_Witness ==
  \E j \in 1..Len(jobs) :
    /\ CoverSelected(jobs[j])
    /\ jobs[j].post.type = "Video"
    /\ jobs[j].post.thumbnailUrl = ""
    /\ jobs[j].post.images = <<"first", "second">>
    /\ jobs[j].imageUrl = "display"
    /\ jobs[j].pc = "downloadImage"

\* C29: every job that /retry starts, by the form of one URL or by the form
\* of all, is for a URL that the ledger holds, at the moment of the request,
\* with at least one attempt and no completion time.
C29_RetryOnlyFailing ==
  [][http'.route = "retry" =>
       \A j \in (Len(jobs) + 1)..Len(jobs') :
         /\ jobs'[j].url \in URLs
         /\ ledger[jobs'[j].url].present
         /\ ledger[jobs'[j].url].attempts_count >= 1
         /\ ledger[jobs'[j].url].imported_at = 0]_vars

\* the place of a call in the job's log, 0 when the job has not made it
Pos(job, name) ==
  IF Called(job, name) THEN CHOOSE k \in 1..Len(job.log) : job.log[k] = name ELSE 0

\* the place of the job's call of the model, 0 when it has made none
PosParser(job) ==
  IF \E k \in 1..Len(job.log) : job.log[k] \in Parsers
  THEN CHOOSE k \in 1..Len(job.log) : job.log[k] \in Parsers
  ELSE 0

\* b was called only after a: when the job has called b, it called a before
Before(job, a, b) == Pos(job, b) > 0 => (Pos(job, a) > 0 /\ Pos(job, a) < Pos(job, b))

Fetches == {"fetchInstagramPost", "fetchHtml"}

\* the steps of one job are in order, and one at a time
Sequential(job) ==
  LET n == Len(job.log)
      fetch == IF IsInstagram(job.url) THEN "fetchInstagramPost" ELSE "fetchHtml"
  IN /\ \A a \in 1..n : \A b \in 1..n : job.log[a] = job.log[b] => a = b
     /\ Cardinality({k \in 1..n : job.log[k] \in Parsers}) <= 1
     /\ InFlight(job) => job.pc = job.log[n]
     /\ job.log[2] = fetch
     /\ Before(job, fetch, "tryFetchJsonLd")
     /\ Pos(job, "tryFetchJsonLd") > 0 =>
          job.post # NoPost /\ job.linkedUrl = ExtractUrlFromCaption(job.post.caption)
     /\ PosParser(job) > 0 =>
          /\ Pos(job, fetch) < PosParser(job)
          /\ Pos(job, "tryFetchJsonLd") < PosParser(job)
          /\ IF IsInstagram(job.url) THEN job.post # NoPost ELSE job.page # NoPage
          /\ Pos(job, "tryFetchJsonLd") > 0 => job.page # NoPage
     /\ Pos(job, "downloadImage") > 0 =>
          /\ PosParser(job) > 0 /\ PosParser(job) < Pos(job, "downloadImage")
          /\ job.response # NoResponse
     /\ \A write \in {"login", "createRecipe"} :
          Pos(job, write) > 0 =>
            /\ PosParser(job) > 0 /\ PosParser(job) < Pos(job, write)
            /\ Pos(job, "downloadImage") < Pos(job, write)
            /\ Pos(job, "downloadImage") > 0 => job.image # NoImage
     /\ Before(job, "createRecipe", "notifySuccess")
     /\ Pos(job, "notifySuccess") > 0 => job.created # ""

\* C30: the steps of one job are strictly in order and never overlap: the
\* fetch of the source settles before the link is extracted and the
\* structured data is read, these before the call of the model, the call of
\* the model before the image download, the write before the success
\* notification, and the success notification before the completion time is
\* written to the ledger.
C30_StepsInOrder ==
  [][/\ \A j \in 1..Len(jobs') : InFlight(jobs'[j]) => Sequential(jobs'[j])
     /\ \A u \in URLs :
          ledger'[u].imported_at # ledger[u].imported_at =>
            \E j \in 1..Len(jobs) :
              /\ jobs[j].url = u
              /\ jobs[j].pc = "notifySuccess"
              /\ jobs'[j].pc = "done"]_vars

C30_Witness ==
  \E j \in 1..Len(jobs) :
    /\ jobs[j].pc = "notifySuccess"
    /\ jobs[j].log = <<"update_count_for_url", "fetchInstagramPost", "tryFetchJsonLd",
                       "parseRecipeFromJsonLdAndCaption", "downloadImage", "login",
                       "createRecipe", "notifySuccess">>

\* C31: jobs for distinct URLs do not interfere through the ledger: under
\* every interleaving, a step of a job changes no row but the row of the
\* job's own URL, and the start of jobs changes the rows of their URLs
\* alone, so that the attempt count and the completion time of another URL
\* are as they were.
C31_OwnRowOnly ==
  [][/\ \A j \in 1..Len(jobs) :
          jobs'[j] # jobs[j] =>
            \A u \in URLs : u # jobs[j].url => ledger'[u] = ledger[u]
     /\ \A u \in URLs :
          ledger'[u] # ledger[u] =>
            \E j \in 1..Len(jobs') :
              /\ jobs'[j].url = u
              /\ j > Len(jobs) \/ jobs'[j] # jobs[j]]_vars

C31_Witness ==
  \E j \in 1..Len(jobs) : \E k \in 1..Len(jobs) :
    /\ jobs[j].url # jobs[k].url
    /\ jobs[j].outcome = "created"
    /\ ledger[jobs[j].url].imported_at # 0
    /\ InFlight(jobs[k])
    /\ ledger[jobs[k].url].attempts_count = 1
    /\ ledger[jobs[k].url].imported_at = 0

\* the token starts with http:// or https://, in any letter case
HasScheme(u) == u[1] \in {"http://", "https://", "HTTP://", "HTTPS://"}

SynthesisCalls(job) == SelectSeq(job.log, LAMBDA name : name \in Parsers)

\* C33: every job makes at most one call of the model; on the social route
\* it is parseRecipeFromJsonLdAndCaption or parseRecipe, on the direct route
\* parseRecipeFromJsonLd, and a job never calls a parser of the other route.
C33_OneSynthesisCall ==
  \A j \in 1..Len(jobs) :
    LET job == jobs[j]
        calls == SynthesisCalls(job)
    IN /\ Len(calls) <= 1
       /\ Called(job, "fetchInstagramPost") =>
            /\ ~Called(job, "fetchHtml")
            /\ \A k \in 1..Len(calls) :
                 calls[k] \in {"parseRecipeFromJsonLdAndCaption", "parseRecipe"}
       /\ Called(job, "fetchHtml") =>
            /\ ~Called(job, "fetchInstagramPost")
            /\ \A k \in 1..Len(calls) : calls[k] = "parseRecipeFromJsonLd"
       /\ job.extraction # "none" /\ job.reason # "No Recipe JSON-LD found on page" =>
            Len(calls) = 1

C33_Witness ==
  /\ Len(jobs) = 2
  /\ jobs[1].url = WebUrl /\ jobs[1].outcome = "created"
  /\ jobs[2].url = IgUrl
  /\ jobs[2].jsonLd # JNull
  /\ SynthesisCalls(jobs[2]) = <<"parseRecipeFromJsonLdAndCaption">>
  /\ jobs[2].pc = "notifySuccess"

C35_RecordedUrlNotIngestedAgain ==
  [][/\ \A u \in URLs : ledger[u].present => ledger'[u].present
     /\ \A auth \in {"none", "bad", "good"} : \A u \in URLs :
          (Ingest(auth, u) /\ ledger[u].present) =>
            /\ jobs' = jobs
            /\ ledger' = ledger
            /\ http'.status \in {200, 401}
     /\ \A j \in (Len(jobs) + 1)..Len(jobs') :
          ledger[jobs'[j].url].present =>
            /\ http'.route = "retry"
            /\ \E url \in URLs \cup {None} : \E all \in {"", "true"} : Retry(url, all)]_vars

C35_Witness ==
  /\ http.route = "ingest"
  /\ http.status = 200
  /\ Len(jobs) = 2
  /\ jobs[1].url = jobs[2].url
  /\ jobs[1].outcome = "error"
  /\ jobs[2].outcome = "notRecipe"
  /\ Cardinality({u \in URLs : ledger[u].present}) = 1

\* the URLs of a sequence
Listed(us) == {us[i] : i \in 1..Len(us)}

\* the URLs that the ledger l holds with at least one attempt and no
\* completion time
AttemptedNotCompleted(l) ==
  {u \in URLs : l[u].present /\ l[u].attempts_count > 0 /\ l[u].imported_at = 0}

\* the list of the admin page names each such URL once and no other; the URL
\* of a job in flight, and of a job that ended with NotRecipe, is on it as
\* long as no job has created a recipe for the URL
FailedListOf(l, js) ==
  LET list == get_failed_urls(l) IN
  /\ Listed(list) = AttemptedNotCompleted(l)
  /\ Len(list) = Cardinality(AttemptedNotCompleted(l))
  /\ \A j \in 1..Len(js) :
       ((InFlight(js[j]) \/ js[j].outcome = "notRecipe")
          /\ \A k \in 1..Len(js) : js[k].url = js[j].url => js[k].outcome # "created")
         => js[j].url \in Listed(list)

\* C36: the failed list of the admin page holds exactly the URLs of the
\* ledger with an attempt count above zero and no completion time, so the
\* URL of a job that ended with NotRecipe and the URL of a job in flight are
\* on it, and the form that retries all starts one job for each of them.
C36_FailedListExact ==
  [][/\ FailedListOf(ledger, jobs)
     /\ FailedListOf(ledger', jobs')
     /\ Retry(None, "true") =>
          /\ Len(jobs') = Len(jobs) + Cardinality(AttemptedNotCompleted(ledger))
          /\ {jobs'[j].url : j \in (Len(jobs) + 1)..Len(jobs')} = AttemptedNotCompleted(ledger)
          /\ \A j \in 1..Len(jobs) :
               ((InFlight(jobs[j]) \/ jobs[j].outcome = "notRecipe")
                  /\ \A k \in 1..Len(jobs) :
                       jobs[k].url = jobs[j].url => jobs[k].outcome # "created")
                 => \E k \in (Len(jobs) + 1)..Len(jobs') :
                      jobs'[k].url = jobs[j].url /\ InFlight(jobs'[k])]_vars

C36_Witness ==
  /\ http.route = "retry"
  /\ http.status = 302
  /\ Len(jobs) = 2
  /\ jobs[1].url = jobs[2].url
  /\ jobs[1].outcome = "notRecipe"
  /\ jobs[2].pc = "fetchInstagramPost"
  /\ get_failed_urls(ledger) = <<jobs[1].url>>
  /\ ledger[jobs[1].url].attempts_count = 2

\* the number of job runs started for the URL u
RunsStarted(js, u) == Cardinality({j \in 1..Len(js) : js[j].url = u})

\* the row of each recorded URL counts the job runs started for it
CountsRuns(l, js) ==
  \A u \in URLs : l[u].present => l[u].attempts_count = RunsStarted(js, u)

\* C37: under any interleaving of jobs and requests, the attempt count of a
\* recorded URL is the number of job runs started for it since it was
\* recorded; the count never decreases, and a completion time, once set, is
\* never cleared.
C37_AttemptsCountRuns ==
  [][/\ CountsRuns(ledger, jobs)
     /\ CountsRuns(ledger', jobs')
     /\ \A u \in URLs :
          ledger[u].present =>
            /\ ledger'[u].attempts_count >= ledger[u].attempts_count
            /\ ledger[u].imported_at # 0 => ledger'[u].imported_at # 0]_vars

\* two runs of one URL were counted while both were in flight, and one of
\* them has set the completion time
C37_Witness ==
  /\ Len(jobs) = 2
  /\ jobs[1].url = jobs[2].url
  /\ ledger[jobs[1].url].attempts_count = 2
  /\ ledger[jobs[1].url].imported_at # 0
  /\ jobs[1].outcome = "created"
  /\ InFlight(jobs[2])

\* the job j enters createRecipe in this step: it starts a login or goes on
\* to the write with the stored session
EntersWrite(j) ==
  /\ j \in 1..Len(jobs)
  /\ jobs[j].pc \notin {"login", "createRecipe"}
  /\ jobs'[j].pc \in {"login", "createRecipe"}

\* C38: once a login has succeeded the stored session is never cleared or
\* replaced and no further login is started; a login that fails leaves the
\* session unset, and the next job that reaches the write starts a fresh login.
C38_SessionStable ==
  [][/\ client # 0 =>
          /\ client' = client
          /\ \A j \in 1..Len(jobs') : EntersWrite(j) => jobs'[j].pc = "createRecipe"
     /\ client = 0 =>
          /\ \A j \in 1..Len(jobs) :
               (jobs[j].pc = "login" /\ jobs'[j].failed = "login") => client' = 0
          /\ \A j \in 1..Len(jobs') : EntersWrite(j) => jobs'[j].pc = "login"]_vars

\* the calls of a job without the login, which depends on the stored session
CallsMade(job) == SelectSeq(job.log, LAMBDA name : name # "login")

\* the answer of the model without its confidence
WithoutConfidence(r) == [r EXCEPT !.answer.confidence = Absent]

\* two runs got the same answers of every collaborator, but for the
\* confidence of the recipe that the model returned
DifferInConfidenceOnly(a, b) ==
  /\ SynthesisOk(a) /\ SynthesisOk(b)
  /\ a.url = b.url /\ a.post = b.post /\ a.page = b.page /\ a.image = b.image
  /\ WithoutConfidence(a.response) = WithoutConfidence(b.response)
  /\ a.created = b.created /\ a.failed = b.failed
  /\ Len(CallsMade(a)) = Len(CallsMade(b))

\* C39: the outcome of a job does not depend on the confidence that the
\* model returned: a recipe of any confidence, also below 0.7, is extracted
\* and never takes the NotRecipe path, and two runs that differ only in the
\* confidence make the same calls with the same recipe, source and photo,
\* send the same record to the list service and notify alike.
C39_ConfidenceIgnored ==
  \A j \in 1..Len(jobs) :
    /\ SynthesisOk(jobs[j]) =>
         /\ jobs[j].reason = ""
         /\ ~Called(jobs[j], "notifyNotRecipe")
         /\ jobs[j].recipe = RecipeParsed(jobs[j].response.answer.recipe[1])
    /\ \A k \in 1..Len(jobs) :
         DifferInConfidenceOnly(jobs[j], jobs[k]) =>
           /\ CallsMade(jobs[j]) = CallsMade(jobs[k])
           /\ jobs[j].extraction = jobs[k].extraction
           /\ jobs[j].recipe = jobs[k].recipe
           /\ jobs[j].sourceUrl = jobs[k].sourceUrl
           /\ jobs[j].sourceName = jobs[k].sourceName
           /\ jobs[j].photo = jobs[k].photo
           /\ jobs[j].err = jobs[k].err
           /\ jobs[j].extraction = "ok" =>
                ClientCreateRecipe(CreateRecipeArgs(jobs[j]))
                  = ClientCreateRecipe(CreateRecipeArgs(jobs[k]))

\* two runs of one URL, one with confidence 0.3 and one with 1.0, have both
\* written the recipe and await the success notification
C39_Witness ==
  /\ Len(jobs) = 2
  /\ DifferInConfidenceOnly(jobs[1], jobs[2])
  /\ jobs[1].response.answer.confidence = Some(Num(3))
  /\ jobs[2].response.answer.confidence = Some(Num(10))
  /\ jobs[1].pc = "notifySuccess"
  /\ jobs[2].pc = "notifySuccess"

\* the request was answered with the status and had no effect
Rejected(status) ==
  /\ http' = Http("ingest", status, <<"respond">>)
  /\ ledger' = ledger
  /\ jobs' = jobs
  /\ client' = client

\* C40: POST /ingest without a valid bearer token is answered 401, and with
\* a valid token and a body that is no URL 400, before any effect: no row is
\* inserted, no field of the ledger changes and no job starts; the token is
\* checked before the body, so a bad token with a bad body gives 401.
C40_RejectedBeforeEffect ==
  [][\A auth \in {"none", "bad", "good"} : \A body \in URLs \cup {BadBody} :
       Ingest(auth, body) =>
         /\ auth # "good" => Rejected(401)
         /\ (auth = "good" /\ body = BadBody) => Rejected(400)
         /\ (auth = "good" /\ body \in URLs) => http'.status \in {200, 202}]_vars

\* a request was answered 401 after a URL had been recorded and imported
C40_Witness ==
  /\ http = Http("ingest", 401, <<"respond">>)
  /\ Len(jobs) = 1
  /\ jobs[1].outcome = "created"
  /\ ledger[jobs[1].url].imported_at # 0
  /\ \A u \in URLs \ {jobs[1].url} : ~ledger[u].present

====
